---- MODULE Spec2Model ----
(***************************************************************************)
(* A model of the Markdown tokenizer, the table manager and the tree      *)
(* builder of markdown-to-html-translator.                                *)
(*                                                                         *)
(* Characters are byte values (the code does arithmetic on them), strings *)
(* are sequences of bytes.  Nodes live in a heap (cx.nodes) and are named  *)
(* by their index, 0 being nullptr; parent is the raw back pointer of     *)
(* struct Node and children the vector of owning pointers.                *)
(* A C++ exception or a crash is recorded in cx.err: every operation that *)
(* touches the emitter, the builders or the return stack is skipped once  *)
(* cx.err is set, as stack unwinding skips the rest of the handler.       *)
(***************************************************************************)
EXTENDS Integers, Sequences, FiniteSets, TLC

VARIABLES cx, read, curr_line, pc, css, args

vars == <<cx, read, curr_line, pc, css, args>>

(***************************************************************************)
(* Character literals of the handlers.                                    *)
(***************************************************************************)
ChTab == 9
ChNL == 10
ChSpace == 32
ChBang == 33
ChQuote == 34
ChHash == 35
ChLParen == 40
ChRParen == 41
ChStar == 42
ChPlus == 43
ChDash == 45
ChDot == 46
ChOne == 49
ChGt == 62
ChLBracket == 91
ChBackslash == 92
ChRBracket == 93
ChBacktick == 96
ChA == 97
ChB == 98
ChPipe == 124
ChZero == 48
ChI == 105
ChO == 111
ChS == 115
ChV == 118

escaped_chars ==
    {ChBackslash, ChBacktick, ChStar, 95, 123, 125, ChLBracket, ChRBracket, 60,
     ChGt, ChLParen, ChRParen, ChHash, ChPlus, ChDash, ChDot, ChBang, ChPipe}

is_escaped_char(c) == c \in escaped_chars

isdigit(c) == c >= 48 /\ c <= 57

\* conversion of an int to char when it is appended to a std::string
ToChar(n) == n % 256

Range(s) == {s[i] : i \in 1..Len(s)}

RECURSIVE Repeat(_, _)
Repeat(c, n) == IF n <= 0 THEN <<>> ELSE <<c>> \o Repeat(c, n - 1)

(***************************************************************************)
(* enum ElementType, enum Attribute, enum State, EnumArithmetic           *)
(***************************************************************************)
ElementType ==
    <<"DOCSTART", "Content", "Header_1", "Header_2", "Header_3", "Header_4",
      "Header_5", "Header_6", "Paragraph", "Codeblock", "Horizontalline",
      "Hypertext", "ImageType", "Span", "List_Ordered", "List_Unordered",
      "List_Element", "Table", "Table_Head", "Table_Row", "Table_Cell",
      "EOF_Reached">>

Attribute ==
    <<"Bold", "Italic", "FontSize1", "FontSize2", "FontSize3", "FontSize4",
      "FontSize5", "FontSize6", "Inline", "Block", "BlockQuote", "TableStyle",
      "TableHeader", "TableRow", "TableCell", "ImageAttr">>

IndexOf(enum, v) == CHOOSE i \in 1..Len(enum) : enum[i] = v

\* static_cast<enum_t>(underlying(enum_val) + offset); a value outside the
\* enumerators has no name
enumOp(enum, enum_val, offset) ==
    LET i == IndexOf(enum, enum_val) + offset
    IN  IF i \in 1..Len(enum) THEN enum[i] ELSE "NotAnEnumerator"

State ==
    {"Data", "DataHashtag", "DataAsterisk", "DataAsteriskData",
     "DataDoubleAsterisk", "DataDoubleAsteriskData", "DataTripleAsterisk",
     "DataTripleAsteriskData", "DataConsumingNumber", "DataOrdinalNumber",
     "HorizontalLine", "DataBacktick", "DataDoubleBacktick", "CodeInline",
     "CodeBlock", "UnorderedListPrep", "UnorderedList", "OrderedListPrep",
     "Image", "AltOpenSquared", "AltClosedSquared", "UrlOpenRound",
     "TitleOpenRound", "TitleConsuming", "TitleClosedRound",
     "TableHeaderNames", "TableHeaderSeparationPipeAwaiting",
     "TableHeaderSeparation", "TableCellPipeAwaiting", "TableCellData"}

INDENTATION == 4

(***************************************************************************)
(* struct Token                                                            *)
(***************************************************************************)
Token(type, el, text, alt, title) ==
    [type |-> type, element |-> el, content |-> text, alt |-> alt, title |-> title]

(***************************************************************************)
(* struct Node and its subclasses.  content holds ContentNode::content,    *)
(* ImageNode::src or HyperlinkNode::href; alt holds ImageNode::alt or     *)
(* HyperlinkNode::displayed.  freed marks a node whose owner was dropped. *)
(***************************************************************************)
Node(kind, type, parent, content, alt, title) ==
    [kind |-> kind, element |-> type, attributes |-> <<>>, parent |-> parent,
     children |-> <<>>, content |-> content, alt |-> alt, title |-> title,
     freed |-> FALSE]

\* add_child putting the child in front of its siblings
add_child_first(nodes, id, child) ==
    [nodes EXCEPT ![id].children = <<child>> \o @]

add_child(nodes, id, child) ==
    [nodes EXCEPT ![id].children = Append(@, child)]

Node_add_attribute(nodes, id, attribute) ==
    [nodes EXCEPT ![id].attributes = Append(@, attribute)]

\* the nodes owned, directly or not, by the nodes of frontier
RECURSIVE Owned(_, _, _)
Owned(nodes, frontier, seen) ==
    IF frontier = {} THEN seen
    ELSE LET now == seen \cup frontier
             next == UNION {Range(nodes[i].children) : i \in frontier}
         IN  Owned(nodes, next \ now, now)

\* the destructor of a node: it and everything it owns is gone
Destroy(nodes, id) ==
    LET gone == Owned(nodes, {id}, {})
    IN  [i \in 1..Len(nodes) |->
            IF i \in gone THEN [nodes[i] EXCEPT !.freed = TRUE] ELSE nodes[i]]

Throw(c, what) == [c EXCEPT !.err = what]

Failed(c) == c.err # "none"

\* statement sequencing: rest is evaluated on the context that the statements
\* before it have left
Then(c, rest(_)) == rest(c)

LogWarning(c, what) == [c EXCEPT !.logged = @ \cup {what}]

(***************************************************************************)
(* class TreeBuilder                                                       *)
(***************************************************************************)
\* consume_token ascending on every Close token, whatever its element
TreeBuilder_consume_token_lenient(c, token) ==
    IF Failed(c) THEN c
    ELSE IF token.type = "OpenToken" THEN
        IF c.current = 0 THEN Throw(c, "null_deref")
        ELSE LET kind == IF token.element = "ImageType" THEN "ImageNode"
                         ELSE IF token.element = "Hypertext" THEN "HyperlinkNode"
                         ELSE "Node"
                 new_node == IF kind = "Node"
                             THEN Node(kind, token.element, c.current, <<>>, <<>>, <<>>)
                             ELSE Node(kind, token.element, c.current,
                                       token.content, token.alt, token.title)
                 id == Len(c.nodes) + 1
             IN  [c EXCEPT !.nodes = add_child(Append(@, new_node), c.current, id),
                           !.current = id]
    ELSE IF token.type = "CloseToken" THEN
        IF c.current = 0 THEN Throw(c, "null_deref")
        ELSE LET w == IF c.nodes[c.current].element = "DOCSTART"
                      THEN LogWarning(c, "current above DOCTYPE") ELSE c
             IN  [w EXCEPT !.current = c.nodes[c.current].parent]
    ELSE IF token.type = "ContentToken" THEN
        IF c.current = 0 THEN Throw(c, "null_deref")
        ELSE LET new_node == Node("ContentNode", token.element, c.current,
                                  token.content, <<>>, <<>>)
                 id == Len(c.nodes) + 1
             IN  [c EXCEPT !.nodes = add_child(Append(@, new_node), c.current, id)]
    ELSE IF token.type = "EOF_Token" THEN c
    ELSE Throw(c, "runtime_error")

TreeBuilder_consume_token(c, token) ==
    IF Failed(c) THEN c
    ELSE IF token.type = "OpenToken" THEN
        IF c.current = 0 THEN Throw(c, "null_deref")
        ELSE LET kind == IF token.element = "ImageType" THEN "ImageNode"
                         ELSE IF token.element = "Hypertext" THEN "HyperlinkNode"
                         ELSE "Node"
                 new_node == IF kind = "Node"
                             THEN Node(kind, token.element, c.current, <<>>, <<>>, <<>>)
                             ELSE Node(kind, token.element, c.current,
                                       token.content, token.alt, token.title)
                 id == Len(c.nodes) + 1
             IN  [c EXCEPT !.nodes = add_child(Append(@, new_node), c.current, id),
                           !.current = id]
    ELSE IF token.type = "CloseToken" THEN
        IF c.current = 0 THEN Throw(c, "null_deref")
        ELSE IF token.element # c.nodes[c.current].element
        THEN Throw(c, "runtime_error")
        ELSE LET w == IF c.nodes[c.current].element = "DOCSTART"
                      THEN LogWarning(c, "current above DOCTYPE") ELSE c
             IN  [w EXCEPT !.current = c.nodes[c.current].parent]
    ELSE IF token.type = "ContentToken" THEN
        IF c.current = 0 THEN Throw(c, "null_deref")
        ELSE LET new_node == Node("ContentNode", token.element, c.current,
                                  token.content, <<>>, <<>>)
                 id == Len(c.nodes) + 1
             IN  [c EXCEPT !.nodes = add_child(Append(@, new_node), c.current, id)]
    ELSE IF token.type = "EOF_Token" THEN c
    ELSE Throw(c, "runtime_error")

append_subtree(c, subtree_root) ==
    IF Failed(c) THEN c
    ELSE IF c.current = 0 THEN Throw(c, "runtime_error")
    ELSE IF subtree_root = 0 THEN Throw(c, "null_deref")
    ELSE [c EXCEPT !.nodes = add_child(@, c.current, subtree_root)]

\* 0 stands for the throw of get_current_element on a null cursor
get_current_element(c) ==
    IF c.current = 0 THEN "none" ELSE c.nodes[c.current].element

TreeBuilder_add_attribute(c, att) ==
    IF Failed(c) THEN c
    ELSE IF c.current = 0 THEN Throw(c, "runtime_error")
    ELSE [c EXCEPT !.nodes = Node_add_attribute(@, c.current, att)]

(***************************************************************************)
(* class TableManager                                                      *)
(***************************************************************************)
create_new_node(c, token) ==
    IF Failed(c) THEN c
    ELSE IF c.tm_current = 0 THEN Throw(c, "null_deref")
    ELSE LET attrs == IF token.element = "Table_Row" THEN <<"TableRow">>
                      ELSE IF token.element = "Table_Head" THEN <<"TableHeader">>
                      ELSE IF token.element = "Table_Cell" THEN <<"TableCell">>
                      ELSE <<>>
             node == [Node("Node", token.element, c.tm_current, <<>>, <<>>, <<>>)
                         EXCEPT !.attributes = attrs]
             id == Len(c.nodes) + 1
         IN  [c EXCEPT !.nodes = add_child(Append(@, node), c.tm_current, id),
                       !.tm_current = id]

\* for (t = children.size(); t < col_dims; ++t) add an empty Table_Cell
RECURSIVE PadRow(_, _, _)
PadRow(nodes, row, col_dims) ==
    IF Len(nodes[row].children) >= col_dims THEN nodes
    ELSE LET empty_child == Node("Node", "Table_Cell", row, <<>>, <<>>, <<>>)
             id == Len(nodes) + 1
         IN  PadRow(add_child(Append(nodes, empty_child), row, id), row, col_dims)

\* the else branch of every Open/Close pair: current = current->parent
TableManager_ascend(c) ==
    IF Failed(c) THEN c
    ELSE IF c.tm_current = 0 THEN Throw(c, "null_deref")
    ELSE [c EXCEPT !.tm_current = c.nodes[c.tm_current].parent]

TableManager_consume_token(c, token) ==
    IF Failed(c) THEN c
    ELSE IF token.element = "Table" THEN
        IF token.type = "OpenToken" THEN
            IF c.table_root # 0 THEN Throw(c, "runtime_error")
            ELSE LET root_node == [Node("Node", "Table", 0, <<>>, <<>>, <<>>)
                                      EXCEPT !.attributes = <<"TableStyle">>]
                     id == Len(c.nodes) + 1
                 IN  [c EXCEPT !.nodes = Append(@, root_node),
                               !.table_root = id, !.tm_current = id]
        ELSE Throw(c, "runtime_error")
    ELSE IF token.element = "Table_Row" THEN
        IF token.type = "OpenToken" THEN create_new_node(c, token)
        ELSE IF c.tm_current = 0 THEN Throw(c, "null_deref")
        ELSE IF c.col_dims # 0 THEN
            LET padded == PadRow(c.nodes, c.tm_current, c.col_dims)
            IN  [c EXCEPT !.nodes = padded,
                          !.tm_current = c.nodes[c.tm_current].parent]
        ELSE LET kids == c.nodes[c.tm_current].children
             IN  IF kids = <<>> THEN Throw(c, "null_deref")
                 ELSE LET popped == [Destroy(c.nodes, kids[Len(kids)])
                                        EXCEPT ![c.tm_current].children =
                                                   SubSeq(kids, 1, Len(kids) - 1)]
                          dims == [c EXCEPT !.nodes = popped,
                                            !.col_dims = Len(kids) - 1]
                      IN  IF Len(kids) - 1 = 0 THEN Throw(dims, "runtime_error")
                          ELSE [dims EXCEPT !.tm_current = c.nodes[c.tm_current].parent]
    ELSE IF token.element = "Table_Head" THEN
        IF token.type = "OpenToken" THEN create_new_node(c, token)
        ELSE TableManager_ascend(c)
    ELSE IF token.element = "Table_Cell" THEN
        IF c.tm_current = 0 THEN Throw(c, "null_deref")
        ELSE IF token.type = "OpenToken" THEN
            IF Len(c.nodes[c.tm_current].children) < c.col_dims
            THEN create_new_node(c, token) ELSE c
        ELSE IF c.nodes[c.tm_current].element = "Table_Cell"
             THEN TableManager_ascend(c) ELSE c
    ELSE IF token.element = "Content" THEN
        IF c.tm_current = 0 THEN Throw(c, "null_deref")
        ELSE IF c.nodes[c.tm_current].element = "Table_Row" THEN c
        ELSE LET node == Node("ContentNode", "Content", c.tm_current,
                              token.content, <<>>, <<>>)
                 id == Len(c.nodes) + 1
             IN  [c EXCEPT !.nodes = add_child(Append(@, node), c.tm_current, id)]
    ELSE IF token.element = "Hypertext" THEN
        IF token.type = "OpenToken" THEN
            IF c.tm_current = 0 THEN Throw(c, "null_deref")
            ELSE LET new_node == Node("HyperlinkNode", "Hypertext", c.tm_current,
                                      token.content, token.alt, token.title)
                     id == Len(c.nodes) + 1
                 IN  [c EXCEPT !.nodes = add_child(Append(@, new_node), c.tm_current, id),
                               !.tm_current = id]
        \* no break after the else branch: control falls into the Span case
        ELSE TableManager_ascend(TableManager_ascend(c))
    ELSE IF token.element \in {"Span", "Codeblock"} THEN
        IF token.type = "OpenToken" THEN create_new_node(c, token)
        ELSE TableManager_ascend(c)
    ELSE c

TableManager_add_attribute(c, attr) ==
    IF Failed(c) THEN c
    ELSE IF c.tm_current = 0 THEN Throw(c, "null_deref")
    ELSE [c EXCEPT !.nodes = Node_add_attribute(@, c.tm_current, attr)]

emit_on_success(c) ==
    IF Failed(c) THEN c
    ELSE LET appended == append_subtree(c, c.table_root)
         IN  IF Failed(appended) THEN appended
             ELSE [appended EXCEPT !.table_root = 0]

\* one "|" leaf per child of the row, followed by that child's own children
RECURSIVE RowChildren(_, _, _, _)
RowChildren(nodes, row_p, i, new_children) ==
    IF i > Len(nodes[row_p].children)
    THEN [nodes |-> nodes, new_children |-> new_children]
    ELSE LET td_node == nodes[row_p].children[i]
             bar == Node("ContentNode", "Content", row_p, <<ChPipe>>, <<>>, <<>>)
             id == Len(nodes) + 1
         IN  RowChildren(Append(nodes, bar), row_p, i + 1,
                         new_children \o <<id>> \o nodes[td_node].children)

emit_row_as_paragraph(c, row_p) ==
    IF Failed(c) THEN c
    ELSE IF c.nodes[row_p].children = <<>>
    THEN [c EXCEPT !.nodes = Destroy(@, row_p)]
    ELSE LET old == c.nodes[row_p].children
             built == RowChildren(c.nodes, row_p, 1, <<>>)
             moved == [i \in 1..Len(built.nodes) |->
                         IF i = row_p
                         THEN [built.nodes[i] EXCEPT !.element = "Paragraph",
                                                     !.children = built.new_children]
                         ELSE IF i \in Range(old)
                         THEN [built.nodes[i] EXCEPT !.children = <<>>, !.freed = TRUE]
                         ELSE built.nodes[i]]
         IN  append_subtree([c EXCEPT !.nodes = moved], row_p)

\* emit_on_failure with a remove_last_child that hands out the last row
\* without erasing it from the children of the table
emit_on_failure_shared_row(c) ==
    IF Failed(c) THEN c
    ELSE IF c.table_root = 0 THEN Throw(c, "uninit_logger")
    ELSE LET kids == c.nodes[c.table_root].children
         IN  IF kids = <<>> THEN c
             ELSE LET last_row_p == kids[Len(kids)]
                      emitted == IF Len(kids) - 1 # 0 THEN emit_on_success(c) ELSE c
                  IN  Then(emit_row_as_paragraph(emitted, last_row_p),
                           LAMBDA demoted :
                               IF Failed(demoted) THEN demoted
                               ELSE [demoted EXCEPT !.table_root = 0, !.col_dims = 0])

emit_on_failure(c) ==
    IF Failed(c) THEN c
    ELSE IF c.table_root = 0 THEN Throw(c, "uninit_logger")
    ELSE LET kids == c.nodes[c.table_root].children
         IN  IF kids = <<>> THEN c
             ELSE LET last_row_p == kids[Len(kids)]
                      removed == [c EXCEPT !.nodes[c.table_root].children =
                                               SubSeq(kids, 1, Len(kids) - 1)]
                      emitted == IF Len(kids) - 1 # 0 THEN emit_on_success(removed)
                                 ELSE removed
                  IN  Then(emit_row_as_paragraph(emitted, last_row_p),
                           LAMBDA demoted :
                               IF Failed(demoted) THEN demoted
                               ELSE [demoted EXCEPT
                                       !.nodes = IF demoted.table_root = 0 THEN @
                                                 ELSE Destroy(@, demoted.table_root),
                                       !.table_root = 0,
                                       !.col_dims = 0])

(***************************************************************************)
(* class Token_Emitter                                                     *)
(***************************************************************************)
\* emit_token without the test of table_parsing_flag: only the Table token
\* itself reaches the table manager
Token_Emitter_emit_token_unflagged(c, to_emit) ==
    IF Failed(c) THEN c
    ELSE IF to_emit.element = "Table"
    THEN TableManager_consume_token([c EXCEPT !.table_parsing_flag = TRUE], to_emit)
    ELSE TreeBuilder_consume_token(c, to_emit)

Token_Emitter_emit_token(c, to_emit) ==
    IF Failed(c) THEN c
    \* an Open Table sets table_parsing_flag before the manager consumes it
    ELSE IF c.table_parsing_flag \/ to_emit.element = "Table"
    THEN TableManager_consume_token([c EXCEPT !.table_parsing_flag = TRUE], to_emit)
    ELSE TreeBuilder_consume_token(c, to_emit)

handle_flag(c, flag) ==
    IF Failed(c) THEN c
    ELSE IF flag \in {"TableFailed", "TableSuccess"} THEN
        Then(IF flag = "TableFailed" THEN emit_on_failure(c) ELSE emit_on_success(c),
             LAMBDA emitted :
                 IF Failed(emitted) THEN emitted
                 ELSE [emitted EXCEPT !.table_parsing_flag = FALSE])
    ELSE c

Token_Emitter_add_attribute(c, attr) ==
    IF c.table_parsing_flag THEN TableManager_add_attribute(c, attr)
    ELSE TreeBuilder_add_attribute(c, attr)

(***************************************************************************)
(* class ReturnStateStack: the top of the stack is the last element        *)
(***************************************************************************)
allowed_return_states ==
    {"Data", "UnorderedListPrep", "OrderedListPrep", "TableHeaderNames",
     "TableCellData"}

push(c, state) ==
    IF Failed(c) THEN c
    ELSE IF state \notin allowed_return_states THEN Throw(c, "runtime_error")
    ELSE [c EXCEPT !.return_stack = Append(@, state)]

top(c) ==
    IF c.return_stack = <<>> THEN "Data"
    ELSE c.return_stack[Len(c.return_stack)]

\* state = return_stack->top_n_pop()
top_n_pop(c) ==
    IF Failed(c) THEN c
    ELSE IF c.return_stack = <<>>
    THEN [LogWarning(c, "Popping an empty stack") EXCEPT !.state = "Data"]
    ELSE [c EXCEPT !.state = top(c),
                   !.return_stack = SubSeq(@, 1, Len(@) - 1)]

(***************************************************************************)
(* struct Context                                                          *)
(***************************************************************************)
Context_emit_token(c, type, element) ==
    IF Failed(c) THEN c
    ELSE LET text == IF type = "ContentToken" THEN c.consumed ELSE <<>>
             cleared == IF type \in {"CloseToken", "ContentToken"}
                        THEN [c EXCEPT !.consumed = <<>>] ELSE c
         IN  Token_Emitter_emit_token(cleared, Token(type, element, text, <<>>, <<>>))

emit_content_token(c) ==
    IF Failed(c) THEN c
    ELSE IF c.consumed = <<>> THEN c
    ELSE IF c.current = 0 THEN Throw(c, "runtime_error")
    ELSE IF get_current_element(c) = "DOCSTART"
    THEN Context_emit_token(Context_emit_token(c, "OpenToken", "Paragraph"),
                            "ContentToken", "Content")
    ELSE Context_emit_token(c, "ContentToken", "Content")

InTable(c) == top(c) \in {"TableHeaderNames", "TableCellData"}

handle_pipe_in_table(c, to_emit, full) ==
    IF Failed(c) THEN c
    ELSE LET to_close == IF top(c) = "TableCellData" THEN "Table_Cell" ELSE "Table_Head"
             filled == [c EXCEPT !.consumed = IF full THEN to_emit ELSE to_emit \o @]
             flushed == Context_emit_token(filled, "ContentToken", "Content")
             popped == top_n_pop(flushed)
         IN  Context_emit_token(Context_emit_token(popped, "CloseToken", to_close),
                                "OpenToken", to_close)

\* to_emit is passed by value: where the code passes std::move(context.consumed),
\* to_emit is a reference to consumed itself and is read before consumed changes
handle_unexpected_newline(c, to_emit, EOF_Reached) ==
    IF Failed(c) THEN c
    ELSE IF InTable(c) THEN
        LET filled == [c EXCEPT !.consumed = @ \o to_emit]
            flushed == Context_emit_token(filled, "ContentToken", "Content")
        IN  top_n_pop(handle_flag(flushed, "TableFailed"))
    ELSE
        Then(IF to_emit # <<>>
             THEN emit_content_token([c EXCEPT !.consumed = @ \o to_emit])
             ELSE c,
             LAMBDA flushed :
                 IF Failed(flushed) THEN flushed
                 ELSE IF flushed.current = 0 THEN Throw(flushed, "runtime_error")
                 ELSE LET currElement == get_current_element(flushed)
                          closed == IF currElement = "Paragraph" /\ ~EOF_Reached
                                    THEN [flushed EXCEPT !.newline_counter = @ + 1]
                                    ELSE Context_emit_token(
                                             [flushed EXCEPT !.newline_counter = 0],
                                             "CloseToken", currElement)
                      IN  top_n_pop([closed EXCEPT !.counter = 0]))

setup_list_parsing(c) == [c EXCEPT !.counter = 0, !.indent_level = 0]

move_up_the_tree(c) ==
    IF Failed(c) THEN c
    ELSE IF c.current = 0 THEN Throw(c, "runtime_error")
    ELSE Context_emit_token(c, "CloseToken", get_current_element(c))

\* n calls of move_up_the_tree; a throw ends the loop
RECURSIVE MoveUp(_, _)
MoveUp(c, n) ==
    IF n <= 0 \/ Failed(c) THEN c ELSE MoveUp(move_up_the_tree(c), n - 1)

\* for (short i = 0; i <= indent_level; i = i + INDENTATION) move_up_the_tree()
MoveUpInclusive(c) == MoveUp(c, (c.indent_level \div INDENTATION) + 1)

\* for (short i = 0; i < indent_level; i = i + INDENTATION) move_up_the_tree()
MoveUpExclusive(c) == MoveUp(c, (c.indent_level + INDENTATION - 1) \div INDENTATION)

\* integer division of C++ truncates towards zero
TruncDiv(a, b) == IF a >= 0 THEN a \div b ELSE -((-a) \div b)

\* for (size_t i = 0; i < curr_indent; ++i) move_up_the_tree(): a negative
\* curr_indent converts to a huge size_t and the loop runs until the throw
MoveUpLevels(c, curr_indent) ==
    MoveUp(c, IF curr_indent < 0 THEN Len(c.nodes) + 1 ELSE curr_indent)

consumed_only_whitespace(c) == \A i \in 1..Len(c.consumed) : c.consumed[i] \in {ChSpace, ChTab}

emit_image(c) ==
    IF Failed(c) THEN c
    ELSE LET opened == Token_Emitter_emit_token(
                           c, Token("OpenToken", "ImageType", c.src, c.alt, c.consumed))
             closed == Context_emit_token(opened, "CloseToken", "ImageType")
         IN  [closed EXCEPT !.src = <<>>, !.alt = <<>>, !.consumed = <<>>]

emit_hyperlink(c) ==
    IF Failed(c) THEN c
    ELSE LET opened == Token_Emitter_emit_token(
                           c, Token("OpenToken", "Hypertext", c.src, c.alt, c.consumed))
             closed == Context_emit_token(opened, "CloseToken", "Hypertext")
         IN  [closed EXCEPT !.src = <<>>, !.alt = <<>>, !.consumed = <<>>]

\* an Open, its attributes, the pending text as Content and the Close
EmitElement(c, element, attrs) ==
    LET opened == Context_emit_token(c, "OpenToken", element)
        styled == Then(Token_Emitter_add_attribute(opened, attrs[1]),
                       LAMBDA first :
                           IF Len(attrs) > 1
                           THEN Token_Emitter_add_attribute(first, attrs[2])
                           ELSE first)
        filled == Context_emit_token(styled, "ContentToken", "Content")
    IN  Context_emit_token(filled, "CloseToken", element)

(***************************************************************************)
(* namespace handlers                                                      *)
(***************************************************************************)
handleData(c, next) ==
    IF next = ChHash THEN
        IF c.consumed = <<>>
        THEN [push(c, "Data") EXCEPT !.counter = @ + 1, !.state = "DataHashtag"]
        ELSE [c EXCEPT !.consumed = Append(@, next)]
    ELSE IF next = ChStar THEN
        [push(emit_content_token(c), "Data") EXCEPT !.state = "DataAsterisk"]
    ELSE IF next = ChDash THEN
        IF c.consumed = <<>>
        THEN [push([c EXCEPT !.counter = @ + 1], "Data") EXCEPT !.state = "HorizontalLine"]
        ELSE [c EXCEPT !.consumed = Append(@, next)]
    ELSE IF next = ChBacktick THEN
        [push(emit_content_token(c), "Data") EXCEPT !.state = "DataBacktick"]
    ELSE IF next = ChGt THEN
        IF c.consumed = <<>>
        THEN push(Token_Emitter_add_attribute(
                      Context_emit_token(c, "OpenToken", "Span"), "BlockQuote"), "Data")
        ELSE [c EXCEPT !.consumed = Append(@, next)]
    ELSE IF next = ChLBracket THEN
        [push(emit_content_token(c), "Data") EXCEPT
            !.is_image = FALSE, !.state = "AltOpenSquared"]
    ELSE IF next = ChBang THEN
        push([emit_content_token(c) EXCEPT !.state = "Image", !.is_image = TRUE], "Data")
    ELSE IF next = ChPipe THEN
        IF consumed_only_whitespace(c)
        THEN LET pushed == push([c EXCEPT !.consumed = <<>>,
                                          !.state = "TableHeaderNames"], "Data")
                 table == Context_emit_token(pushed, "OpenToken", "Table")
                 row == Context_emit_token(table, "OpenToken", "Table_Row")
             IN  Context_emit_token(row, "OpenToken", "Table_Head")
        ELSE [c EXCEPT !.consumed = Append(@, ChPipe)]
    ELSE IF next = ChNL THEN
        IF c.current = 0 THEN Throw(c, "runtime_error")
        ELSE LET curr_el == get_current_element(c)
                 close_list_item(up) ==
                     IF up.blockquote_in_list
                     THEN [Context_emit_token(up, "CloseToken", "List_Element")
                              EXCEPT !.blockquote_in_list = FALSE]
                     ELSE up
                 close_element(flushed) ==
                     IF flushed.newline_counter = 1 /\ curr_el = "Paragraph"
                     THEN Context_emit_token(flushed, "CloseToken", "Paragraph")
                     ELSE IF curr_el # "DOCSTART" /\ curr_el # "Paragraph"
                     THEN top_n_pop(close_list_item(
                              Context_emit_token(flushed, "CloseToken", curr_el)))
                     ELSE flushed
                 count_newline(closed) ==
                     IF curr_el = "Paragraph"
                     THEN [closed EXCEPT !.newline_counter = @ + 1]
                     ELSE closed
             IN  count_newline(close_element(emit_content_token(c)))
    ELSE IF c.consumed = <<>> /\ isdigit(next)
    THEN [push([c EXCEPT !.consumed = Append(@, next)], "Data")
             EXCEPT !.state = "DataConsumingNumber"]
    ELSE [c EXCEPT !.consumed = Append(@, next)]

handleHashtag(c, next) ==
    IF next = ChHash /\ c.counter < 6 THEN [c EXCEPT !.counter = @ + 1]
    ELSE IF next = ChSpace THEN
        LET opened == Context_emit_token(
                          c, "OpenToken", enumOp(ElementType, "Header_1", c.counter - 1))
            bold == Token_Emitter_add_attribute(opened, "Bold")
            sized == Token_Emitter_add_attribute(
                         bold, enumOp(Attribute, "FontSize1", c.counter - 1))
        IN  [push([sized EXCEPT !.counter = 0], "Data") EXCEPT !.state = "Data"]
    ELSE IF next = ChNL THEN
        LET filled == [c EXCEPT !.consumed = @ \o Repeat(ChHash, c.counter)]
        IN  handle_unexpected_newline(filled, filled.consumed, c.EOF_Reached)
    ELSE top_n_pop([c EXCEPT !.consumed = @ \o Repeat(ChHash, c.counter)])

handleDataAsterisk(c, next) ==
    IF next = ChStar THEN [c EXCEPT !.state = "DataDoubleAsterisk"]
    ELSE IF next = ChNL THEN
        handle_unexpected_newline([c EXCEPT !.warning_msg = "Unclosed asterisk"],
                                  <<ChStar>>, c.EOF_Reached)
    ELSE IF next = ChPipe /\ InTable(c) THEN
        handle_pipe_in_table([c EXCEPT !.warning_msg = "Unclosed asterisk"],
                             <<ChStar>>, FALSE)
    ELSE [c EXCEPT !.consumed = Append(@, next), !.state = "DataAsteriskData"]

\* handleAsteriskData closing the span of *x* with the attribute of **x**
handleAsteriskData_bold(c, next) ==
    IF next = ChStar THEN top_n_pop(EmitElement(c, "Span", <<"Bold">>))
    ELSE IF next = ChNL THEN
        handle_unexpected_newline([c EXCEPT !.warning_msg = "Unclosed asterisk"],
                                  <<ChStar>> \o c.consumed, c.EOF_Reached)
    ELSE IF next = ChPipe /\ InTable(c) THEN
        handle_pipe_in_table([c EXCEPT !.warning_msg = "Unclosed asterisk"],
                             <<ChStar>>, FALSE)
    ELSE [c EXCEPT !.consumed = Append(@, next)]

handleAsteriskData(c, next) ==
    IF next = ChStar THEN top_n_pop(EmitElement(c, "Span", <<"Italic">>))
    ELSE IF next = ChNL THEN
        handle_unexpected_newline([c EXCEPT !.warning_msg = "Unclosed asterisk"],
                                  <<ChStar>> \o c.consumed, c.EOF_Reached)
    ELSE IF next = ChPipe /\ InTable(c) THEN
        handle_pipe_in_table([c EXCEPT !.warning_msg = "Unclosed asterisk"],
                             <<ChStar>>, FALSE)
    ELSE [c EXCEPT !.consumed = Append(@, next)]

handleDoubleAsterisk(c, next) ==
    IF next = ChStar THEN [c EXCEPT !.state = "DataTripleAsterisk"]
    ELSE IF next = ChNL THEN
        handle_unexpected_newline([c EXCEPT !.warning_msg = "Unclosed asterisk"],
                                  <<ChStar, ChStar>>, c.EOF_Reached)
    ELSE IF next = ChPipe /\ InTable(c) THEN
        handle_pipe_in_table([c EXCEPT !.warning_msg = "Unclosed asterisk"],
                             <<ChStar, ChStar>>, FALSE)
    ELSE [c EXCEPT !.consumed = Append(@, next), !.state = "DataDoubleAsteriskData"]

handleDataDoubleAsteriskData(c, next) ==
    IF next = ChStar THEN
        IF c.counter + 1 = 2
        THEN top_n_pop(EmitElement([c EXCEPT !.counter = 0], "Span", <<"Bold">>))
        ELSE [c EXCEPT !.counter = @ + 1]
    ELSE IF next = ChNL THEN
        LET filled == [c EXCEPT
                          !.warning_msg = "Unclosed asterisk",
                          !.consumed = <<ChStar, ChStar>> \o @
                                       \o (IF c.counter = 1 THEN <<ChStar>> ELSE <<>>)]
        IN  handle_unexpected_newline(filled, filled.consumed, c.EOF_Reached)
    ELSE IF next = ChPipe /\ InTable(c) THEN
        handle_pipe_in_table([c EXCEPT !.warning_msg = "Unclosed asterisk"],
                             <<ChStar, ChStar>>, FALSE)
    ELSE [c EXCEPT !.counter = 0, !.consumed = Append(@, next)]

handleDataTripleAsterisk(c, next) ==
    IF next = ChStar
    THEN top_n_pop([c EXCEPT !.consumed = @ \o <<ChStar, ChStar, ChStar, ChStar>>])
    ELSE IF next = ChNL THEN
        handle_unexpected_newline([c EXCEPT !.warning_msg = "Unclosed asterisk"],
                                  <<ChStar, ChStar, ChStar>>, c.EOF_Reached)
    ELSE IF next = ChPipe /\ InTable(c) THEN
        handle_pipe_in_table([c EXCEPT !.warning_msg = "Unclosed asterisk"],
                             <<ChStar, ChStar, ChStar>>, FALSE)
    ELSE [c EXCEPT !.consumed = Append(@, next), !.state = "DataTripleAsteriskData"]

handleDataTripleAsteriskData(c, next) ==
    IF next = ChStar THEN
        IF c.counter + 1 = 3
        THEN top_n_pop(EmitElement([c EXCEPT !.counter = 0], "Span", <<"Bold", "Italic">>))
        ELSE [c EXCEPT !.counter = @ + 1]
    ELSE IF next = ChNL THEN
        LET filled == [c EXCEPT
                          !.warning_msg = "Unclosed asterisk",
                          !.consumed = <<ChStar, ChStar, ChStar>> \o @
                                       \o Repeat(ChStar, c.counter)]
        IN  handle_unexpected_newline(filled, filled.consumed, c.EOF_Reached)
    ELSE IF next = ChPipe /\ InTable(c) THEN
        handle_pipe_in_table([c EXCEPT !.warning_msg = "Unclosed asterisk"],
                             <<ChStar, ChStar, ChStar>>, FALSE)
    ELSE [c EXCEPT !.counter = 0, !.consumed = Append(@, next)]

handleDataConsumingNumber(c, next) ==
    IF next = ChDot
    THEN [c EXCEPT !.consumed = Append(@, ChDot), !.state = "DataOrdinalNumber"]
    ELSE IF next = ChNL
    THEN handle_unexpected_newline(c, c.consumed, c.EOF_Reached)
    ELSE top_n_pop([c EXCEPT !.consumed = Append(@, next)])

\* if (context.blockquote_in_list) { Open Span; add_attribute(BlockQuote) }
OpenBlockQuote(c) ==
    IF c.blockquote_in_list
    THEN Token_Emitter_add_attribute(
             Context_emit_token(c, "OpenToken", "Span"), "BlockQuote")
    ELSE c

\* the item of a list that is already open; list is the element of a nested list
ListItem(c, list, prep) ==
    IF c.counter >= c.indent_level + INDENTATION THEN
        LET deeper == [c EXCEPT !.indent_level = c.counter, !.counter = 0]
            opened == Context_emit_token(
                          Context_emit_token(deeper, "OpenToken", list),
                          "OpenToken", "List_Element")
        IN  [push(OpenBlockQuote(opened), prep) EXCEPT !.state = "Data"]
    ELSE
        LET counter == IF c.counter % INDENTATION # 0 THEN c.counter - 1 ELSE c.counter
            curr_indent == TruncDiv(c.indent_level - counter, INDENTATION)
            level == [c EXCEPT !.indent_level = counter, !.counter = 0]
            up == MoveUpLevels(level, curr_indent)
            opened == Context_emit_token(push(up, prep), "OpenToken", "List_Element")
        IN  [OpenBlockQuote(opened) EXCEPT !.state = "Data"]

handleDataOrdinalNumber(c, next) ==
    IF next = ChSpace THEN
        LET cleared == [c EXCEPT !.consumed = <<>>]
        IN  IF c.current = 0 THEN Throw(cleared, "runtime_error")
            ELSE IF get_current_element(c) \in {"List_Ordered", "List_Unordered"}
            THEN ListItem(cleared, "List_Ordered", "OrderedListPrep")
            ELSE LET opened == Context_emit_token(
                                   Context_emit_token(cleared, "OpenToken", "List_Ordered"),
                                   "OpenToken", "List_Element")
                 IN  [push(opened, "OrderedListPrep") EXCEPT !.state = "Data"]
    ELSE IF next = ChNL
    THEN handle_unexpected_newline(c, c.consumed, c.EOF_Reached)
    ELSE top_n_pop([c EXCEPT !.consumed = Append(@, next)])

\* handleHorizontalLine drawing the rule from two dashes on
handleHorizontalLine_two(c, next) ==
    IF next = ChDash THEN [c EXCEPT !.counter = @ + 1]
    ELSE IF next = ChNL THEN
        IF c.counter >= 2
        THEN LET line == Context_emit_token(
                             Context_emit_token(c, "OpenToken", "Horizontalline"),
                             "CloseToken", "Horizontalline")
             IN  [top_n_pop(line) EXCEPT !.counter = 0]
        ELSE top_n_pop(emit_content_token(
                 [c EXCEPT !.consumed = @ \o Repeat(ChDash, c.counter), !.counter = 0]))
    ELSE IF next \in {ChSpace, ChTab} /\ c.counter = 1 THEN
        LET opened == Context_emit_token(
                          Context_emit_token(c, "OpenToken", "List_Unordered"),
                          "OpenToken", "List_Element")
        IN  setup_list_parsing(push([opened EXCEPT !.state = "Data"], "UnorderedListPrep"))
    ELSE top_n_pop(emit_content_token(
             [c EXCEPT !.consumed = Append(@ \o Repeat(ChDash, c.counter), next),
                       !.counter = 0]))

handleHorizontalLine(c, next) ==
    IF next = ChDash THEN [c EXCEPT !.counter = @ + 1]
    ELSE IF next = ChNL THEN
        IF c.counter >= 3
        THEN LET line == Context_emit_token(
                             Context_emit_token(c, "OpenToken", "Horizontalline"),
                             "CloseToken", "Horizontalline")
             IN  [top_n_pop(line) EXCEPT !.counter = 0]
        ELSE top_n_pop(emit_content_token(
                 [c EXCEPT !.consumed = @ \o Repeat(ChDash, c.counter), !.counter = 0]))
    ELSE IF next \in {ChSpace, ChTab} /\ c.counter = 1 THEN
        LET opened == Context_emit_token(
                          Context_emit_token(c, "OpenToken", "List_Unordered"),
                          "OpenToken", "List_Element")
        IN  setup_list_parsing(push([opened EXCEPT !.state = "Data"], "UnorderedListPrep"))
    ELSE top_n_pop(emit_content_token(
             [c EXCEPT !.consumed = Append(@ \o Repeat(ChDash, c.counter), next),
                       !.counter = 0]))

handleDataBacktick(c, next) ==
    IF next = ChBacktick THEN
        IF InTable(c)
        THEN top_n_pop(Context_emit_token(
                 [c EXCEPT !.consumed = <<ChBacktick, ChBacktick>>],
                 "ContentToken", "Content"))
        ELSE [c EXCEPT !.state = "DataDoubleBacktick"]
    ELSE IF next = ChNL THEN
        handle_unexpected_newline([c EXCEPT !.warning_msg = "Unclosed backtick"],
                                  <<ChBacktick>>, c.EOF_Reached)
    ELSE IF next = ChPipe /\ InTable(c) THEN
        handle_pipe_in_table([c EXCEPT !.warning_msg = "Unclosed backtick"],
                             <<ChBacktick>>, FALSE)
    ELSE [c EXCEPT !.consumed = Append(@, next), !.state = "CodeInline"]

handleDataDoubleBacktick(c, next) ==
    IF next = ChBacktick THEN [c EXCEPT !.state = "CodeBlock"]
    ELSE IF next = ChNL
    THEN handle_unexpected_newline(c, <<ChBacktick, ChBacktick>>, c.EOF_Reached)
    ELSE top_n_pop(emit_content_token(
             [c EXCEPT !.consumed = <<ChBacktick, ChBacktick>>]))

handleCodeInlineState(c, next) ==
    IF next = ChBacktick THEN top_n_pop(EmitElement(c, "Codeblock", <<"Inline">>))
    ELSE IF next = ChNL THEN
        handle_unexpected_newline([c EXCEPT !.warning_msg = "Unclosed backtick"],
                                  <<ChBacktick>> \o c.consumed, c.EOF_Reached)
    ELSE IF next = ChPipe /\ InTable(c) THEN
        handle_pipe_in_table([c EXCEPT !.warning_msg = "Unclosed backtick"],
                             <<ChBacktick>>, FALSE)
    ELSE [c EXCEPT !.consumed = Append(@, next)]

handleCodeBlock_drop_run(c, next) ==
    IF next = ChBacktick THEN
        IF c.counter + 1 = 3
        THEN top_n_pop([EmitElement([c EXCEPT !.counter = @ + 1], "Codeblock", <<"Block">>)
                           EXCEPT !.counter = 0])
        ELSE [c EXCEPT !.counter = @ + 1]
    ELSE [c EXCEPT !.consumed = Append(@, next), !.counter = 0]

handleCodeBlock(c, next) ==
    IF next = ChBacktick THEN
        IF c.counter + 1 = 3
        THEN top_n_pop([EmitElement([c EXCEPT !.counter = @ + 1], "Codeblock", <<"Block">>)
                           EXCEPT !.counter = 0])
        ELSE [c EXCEPT !.counter = @ + 1]
    ELSE [c EXCEPT !.consumed = Append(@ \o Repeat(ChBacktick, c.counter), next),
                   !.counter = 0]

ListMarkers == {ChStar, ChPlus, ChGt, ChDash}

handleUnorderedListPrep(c, next) ==
    IF next = ChNL THEN setup_list_parsing(MoveUpInclusive(top_n_pop(c)))
    ELSE IF next = ChSpace THEN [c EXCEPT !.counter = @ + 1]
    ELSE IF next = ChTab THEN [c EXCEPT !.counter = @ + INDENTATION]
    ELSE IF next \in ListMarkers THEN
        IF c.counter > c.indent_level + INDENTATION
        THEN [setup_list_parsing(top_n_pop(MoveUpInclusive(c)))
                 EXCEPT !.consumed = <<next>>]
        ELSE [c EXCEPT !.blockquote_in_list = IF next = ChGt THEN TRUE ELSE @,
                       !.state = "UnorderedList"]
    ELSE IF isdigit(next)
    THEN [c EXCEPT !.consumed = Append(@, next), !.state = "DataConsumingNumber"]
    ELSE setup_list_parsing(top_n_pop(MoveUpInclusive(
             [c EXCEPT !.consumed = Append(@, next)])))

handleUnorderedList(c, next) ==
    IF next \in {ChTab, ChSpace}
    THEN ListItem(c, "List_Unordered", "UnorderedListPrep")
    ELSE LET up == MoveUpExclusive(c)
         IN  [top_n_pop([up EXCEPT !.consumed = <<ToChar(ChDash + next)>>,
                                   !.counter = 0])
                 EXCEPT !.indent_level = 0]

handleOrderedListPrep(c, next) ==
    IF next = ChNL THEN setup_list_parsing(MoveUpInclusive(top_n_pop(c)))
    ELSE IF next = ChTab THEN [c EXCEPT !.counter = @ + INDENTATION]
    ELSE IF next = ChSpace THEN [c EXCEPT !.counter = @ + 1]
    ELSE IF next \in ListMarkers THEN
        IF c.counter > c.indent_level + INDENTATION
        THEN [setup_list_parsing(top_n_pop(MoveUpInclusive(c)))
                 EXCEPT !.consumed = <<next>>]
        ELSE [c EXCEPT !.blockquote_in_list = IF next = ChGt THEN TRUE ELSE @,
                       !.state = "UnorderedList"]
    ELSE IF isdigit(next)
    THEN [c EXCEPT !.consumed = Append(@, next), !.state = "DataConsumingNumber"]
    ELSE LET up == MoveUpInclusive(c)
         IN  setup_list_parsing(top_n_pop([up EXCEPT !.consumed = Append(@, next)]))

\* if (context.is_image) context.consumed = '!' + context.consumed
WithBang(c, text) == IF c.is_image THEN <<ChBang>> \o text ELSE text

\* the guard of every case '|' of the link states
PipeInTable(c, next) == next = ChPipe /\ ~c.is_image /\ InTable(c)

handleImage(c, next) ==
    IF next = ChLBracket THEN [c EXCEPT !.state = "AltOpenSquared"]
    ELSE IF next = ChNL THEN handle_unexpected_newline(c, <<ChBang>>, c.EOF_Reached)
    ELSE top_n_pop([c EXCEPT !.consumed = <<ToChar(ChBang + next)>>])

\* '[' + std::move(context.alt) leaves alt moved-from, which is empty in the
\* standard libraries; the case '|' has no break and falls into the default
handleAltOpenSquared(c, next) ==
    IF next = ChRBracket THEN [c EXCEPT !.state = "AltClosedSquared"]
    ELSE IF next = ChNL THEN
        LET filled == [c EXCEPT !.consumed = WithBang(c, <<ChLBracket>> \o c.alt)]
        IN  [handle_unexpected_newline(filled, filled.consumed, c.EOF_Reached)
                EXCEPT !.alt = <<>>]
    ELSE IF PipeInTable(c, next) THEN
        [handle_pipe_in_table([c EXCEPT !.alt = <<>>], <<ChLBracket>> \o c.alt, TRUE)
            EXCEPT !.alt = <<next>>]
    ELSE [c EXCEPT !.alt = Append(@, next)]

handleAltClosedSquared(c, next) ==
    IF next = ChLParen THEN [c EXCEPT !.state = "UrlOpenRound"]
    ELSE IF next = ChNL THEN
        LET filled == [c EXCEPT !.consumed =
                          WithBang(c, <<ChLBracket>> \o c.alt \o <<ChRBracket>> \o @)]
        IN  [handle_unexpected_newline(filled, filled.consumed, c.EOF_Reached)
                EXCEPT !.alt = <<>>]
    ELSE IF PipeInTable(c, next) THEN
        handle_pipe_in_table([c EXCEPT !.alt = <<>>],
                             <<ChLBracket>> \o c.alt \o <<ChRBracket>>, TRUE)
    ELSE [top_n_pop([c EXCEPT !.consumed =
                        WithBang(c, <<ChLBracket>> \o c.alt \o <<ChRBracket, next>>)])
             EXCEPT !.alt = <<>>]

handleUrlOpenRound(c, next) ==
    IF next = ChRParen
    THEN top_n_pop(IF c.is_image THEN emit_image(c) ELSE emit_hyperlink(c))
    ELSE IF next = ChSpace THEN [c EXCEPT !.state = "TitleOpenRound"]
    ELSE IF next = ChNL THEN
        LET filled == [c EXCEPT !.consumed =
                          WithBang(c, <<ChLBracket>> \o c.alt
                                      \o <<ChRBracket, ChLParen>> \o @)]
        IN  [handle_unexpected_newline(filled, filled.consumed, c.EOF_Reached)
                EXCEPT !.alt = <<>>, !.src = <<>>]
    ELSE IF PipeInTable(c, next) THEN
        handle_pipe_in_table(c, <<ChLBracket>> \o c.alt \o <<ChLBracket, ChLParen>>, FALSE)
    ELSE [c EXCEPT !.src = Append(@, next)]

handleTitleOpenRound(c, next) ==
    LET prefix == <<ChLBracket>> \o c.alt \o <<ChRBracket, ChLParen>> \o c.src
                  \o <<ChSpace>>
    IN  IF next = ChQuote THEN [c EXCEPT !.state = "TitleConsuming"]
        ELSE IF next = ChNL THEN
            LET filled == [c EXCEPT !.consumed = WithBang(c, prefix)]
            IN  [handle_unexpected_newline(filled, filled.consumed, c.EOF_Reached)
                    EXCEPT !.alt = <<>>, !.src = <<>>]
        ELSE IF PipeInTable(c, next) THEN handle_pipe_in_table(c, prefix, TRUE)
        ELSE top_n_pop([c EXCEPT !.consumed = WithBang(c, Append(prefix, next)),
                                 !.alt = <<>>, !.src = <<>>])

handleTitleConsuming(c, next) ==
    IF next = ChQuote THEN [c EXCEPT !.state = "TitleClosedRound"]
    ELSE IF next = ChNL THEN
        LET filled == [c EXCEPT !.consumed =
                          WithBang(c, <<ChBang, ChLBracket>> \o c.alt
                                      \o <<ChRBracket, ChLParen>> \o c.src
                                      \o <<ChSpace, ChQuote>> \o @)]
        IN  [handle_unexpected_newline(filled, filled.consumed, c.EOF_Reached)
                EXCEPT !.alt = <<>>, !.src = <<>>]
    ELSE IF PipeInTable(c, next) THEN
        handle_pipe_in_table(c, <<ChLBracket>> \o c.alt \o <<ChRBracket, ChLParen>>
                                \o c.src \o <<ChQuote>>, FALSE)
    ELSE [c EXCEPT !.consumed = Append(@, next)]

handleTitleClosedRound(c, next) ==
    LET prefix == <<ChLBracket>> \o c.alt \o <<ChRBracket, ChLParen>> \o c.src
                  \o <<ChSpace, ChQuote>> \o c.consumed
    IN  IF next = ChRParen
        THEN top_n_pop(IF c.is_image THEN emit_image(c) ELSE emit_hyperlink(c))
        ELSE IF next = ChNL THEN
            LET filled == [c EXCEPT !.consumed = WithBang(c, Append(prefix, ChQuote))]
            IN  [handle_unexpected_newline(filled, filled.consumed, c.EOF_Reached)
                    EXCEPT !.alt = <<>>, !.src = <<>>]
        ELSE IF PipeInTable(c, next)
        THEN handle_pipe_in_table(c, Append(prefix, ChQuote), FALSE)
        ELSE top_n_pop([c EXCEPT !.consumed = <<ChBang>> \o Append(prefix, next),
                                 !.alt = <<>>, !.src = <<>>])

\* the cases '*', '`' and '[' of the two table states that hold text
TableInline(c, next, return_state) ==
    LET flushed == Context_emit_token(c, "ContentToken", "Content")
        inline == IF next = ChStar THEN "DataAsterisk"
                  ELSE IF next = ChBacktick THEN "DataBacktick"
                  ELSE "AltOpenSquared"
    IN  push([flushed EXCEPT !.state = inline], return_state)

handleTableHeaderNames(c, next) ==
    IF next = ChNL THEN
        IF consumed_only_whitespace(c)
        THEN [Context_emit_token(
                  Context_emit_token(c, "CloseToken", "Table_Head"),
                  "CloseToken", "Table_Row")
                 EXCEPT !.state = "TableHeaderSeparationPipeAwaiting", !.counter = 0]
        ELSE top_n_pop(handle_flag(
                 Context_emit_token(c, "ContentToken", "Content"), "TableFailed"))
    ELSE IF next = ChPipe THEN
        Context_emit_token(
            Context_emit_token(
                Context_emit_token(c, "ContentToken", "Content"),
                "CloseToken", "Table_Head"),
            "OpenToken", "Table_Head")
    ELSE IF next \in {ChStar, ChBacktick, ChLBracket}
    THEN TableInline(c, next, "TableHeaderNames")
    ELSE [c EXCEPT !.consumed = Append(@, next)]

handleTableHeaderSeparationPipeAwaiting(c, next) ==
    IF next = ChNL
    THEN top_n_pop(emit_content_token(handle_flag(c, "TableFailed")))
    ELSE IF next \in {ChSpace, ChTab} THEN [c EXCEPT !.consumed = Append(@, next)]
    ELSE IF next = ChPipe
    THEN [c EXCEPT !.consumed = Append(@, ChPipe), !.counter = 0, !.alt_counter = 0,
                   !.state = "TableHeaderSeparation"]
    ELSE top_n_pop(emit_content_token(handle_flag(
             [c EXCEPT !.consumed = Append(@, next)], "TableFailed")))

\* handleTableHeaderSeparation asking for four dashes in every column
handleTableHeaderSeparation_four(c, next) ==
    IF next = ChNL THEN
        IF c.col_dims = c.alt_counter
        THEN Then(Context_emit_token(
                      [c EXCEPT !.alt_counter = 0, !.consumed = <<>>,
                                !.counter = 0, !.state = "TableCellPipeAwaiting"],
                      "OpenToken", "Table_Row"),
                  LAMBDA row :
                      IF c.EOF_Reached THEN handle_flag(row, "TableFailed") ELSE row)
        ELSE top_n_pop(handle_flag(
                 Context_emit_token([c EXCEPT !.alt_counter = 0, !.counter = 0],
                                    "ContentToken", "Content"),
                 "TableFailed"))
    ELSE IF next = ChPipe THEN
        LET counted == [c EXCEPT !.alt_counter = @ + 1, !.consumed = Append(@, ChPipe)]
        IN  IF c.counter < 4
            THEN top_n_pop(emit_content_token(handle_flag(counted, "TableFailed")))
            ELSE [counted EXCEPT !.counter = 0]
    ELSE IF next \in {ChSpace, ChTab} THEN [c EXCEPT !.consumed = Append(@, next)]
    ELSE IF next = ChDash
    THEN [c EXCEPT !.counter = @ + 1, !.consumed = Append(@, ChDash)]
    ELSE top_n_pop(emit_content_token(handle_flag(
             [c EXCEPT !.consumed = Append(@, next)], "TableFailed")))

handleTableHeaderSeparation(c, next) ==
    IF next = ChNL THEN
        IF c.col_dims = c.alt_counter
        THEN Then(Context_emit_token(
                      [c EXCEPT !.alt_counter = 0, !.consumed = <<>>,
                                !.counter = 0, !.state = "TableCellPipeAwaiting"],
                      "OpenToken", "Table_Row"),
                  LAMBDA row :
                      IF c.EOF_Reached THEN handle_flag(row, "TableFailed") ELSE row)
        ELSE top_n_pop(handle_flag(
                 Context_emit_token([c EXCEPT !.alt_counter = 0, !.counter = 0],
                                    "ContentToken", "Content"),
                 "TableFailed"))
    ELSE IF next = ChPipe THEN
        LET counted == [c EXCEPT !.alt_counter = @ + 1, !.consumed = Append(@, ChPipe)]
        IN  IF c.counter < 3
            THEN top_n_pop(emit_content_token(handle_flag(counted, "TableFailed")))
            ELSE [counted EXCEPT !.counter = 0]
    ELSE IF next \in {ChSpace, ChTab} THEN [c EXCEPT !.consumed = Append(@, next)]
    ELSE IF next = ChDash
    THEN [c EXCEPT !.counter = @ + 1, !.consumed = Append(@, ChDash)]
    ELSE top_n_pop(emit_content_token(handle_flag(
             [c EXCEPT !.consumed = Append(@, next)], "TableFailed")))

handleTableCellPipeAwaiting(c, next) ==
    IF next = ChNL THEN top_n_pop(handle_flag(c, "TableFailed"))
    ELSE IF next \in {ChSpace, ChTab} THEN c
    ELSE IF next = ChPipe
    THEN [Context_emit_token(c, "OpenToken", "Table_Cell") EXCEPT !.state = "TableCellData"]
    ELSE [top_n_pop(handle_flag(c, "TableFailed")) EXCEPT !.consumed = Append(@, next)]

handleTableCellData(c, next) ==
    IF next = ChNL THEN
        IF ~consumed_only_whitespace(c)
        THEN top_n_pop(handle_flag(
                 Context_emit_token(c, "ContentToken", "Content"), "TableFailed"))
        ELSE LET ended ==
                     Then(Context_emit_token(
                              Context_emit_token(
                                  Context_emit_token(c, "CloseToken", "Table_Cell"),
                                  "CloseToken", "Table_Row"),
                              "OpenToken", "Table_Row"),
                          LAMBDA row :
                              IF c.EOF_Reached THEN handle_flag(row, "TableFailed")
                              ELSE row)
             IN  [ended EXCEPT !.state = "TableCellPipeAwaiting", !.consumed = <<>>]
    ELSE IF next = ChPipe THEN
        Context_emit_token(
            Context_emit_token(
                Context_emit_token(c, "ContentToken", "Content"),
                "CloseToken", "Table_Cell"),
            "OpenToken", "Table_Cell")
    ELSE IF next \in {ChStar, ChBacktick, ChLBracket}
    THEN TableInline(c, next, "TableCellData")
    ELSE [c EXCEPT !.consumed = Append(@, next)]

\* the vector state_handlers, indexed by the state
state_handlers(c, next) ==
    CASE c.state = "Data" -> handleData(c, next)
      [] c.state = "DataHashtag" -> handleHashtag(c, next)
      [] c.state = "DataAsterisk" -> handleDataAsterisk(c, next)
      [] c.state = "DataAsteriskData" -> handleAsteriskData(c, next)
      [] c.state = "DataDoubleAsterisk" -> handleDoubleAsterisk(c, next)
      [] c.state = "DataDoubleAsteriskData" -> handleDataDoubleAsteriskData(c, next)
      [] c.state = "DataTripleAsterisk" -> handleDataTripleAsterisk(c, next)
      [] c.state = "DataTripleAsteriskData" -> handleDataTripleAsteriskData(c, next)
      [] c.state = "DataConsumingNumber" -> handleDataConsumingNumber(c, next)
      [] c.state = "DataOrdinalNumber" -> handleDataOrdinalNumber(c, next)
      [] c.state = "HorizontalLine" -> handleHorizontalLine(c, next)
      [] c.state = "DataBacktick" -> handleDataBacktick(c, next)
      [] c.state = "DataDoubleBacktick" -> handleDataDoubleBacktick(c, next)
      [] c.state = "CodeInline" -> handleCodeInlineState(c, next)
      [] c.state = "CodeBlock" -> handleCodeBlock(c, next)
      [] c.state = "UnorderedListPrep" -> handleUnorderedListPrep(c, next)
      [] c.state = "UnorderedList" -> handleUnorderedList(c, next)
      [] c.state = "OrderedListPrep" -> handleOrderedListPrep(c, next)
      [] c.state = "Image" -> handleImage(c, next)
      [] c.state = "AltOpenSquared" -> handleAltOpenSquared(c, next)
      [] c.state = "AltClosedSquared" -> handleAltClosedSquared(c, next)
      [] c.state = "UrlOpenRound" -> handleUrlOpenRound(c, next)
      [] c.state = "TitleOpenRound" -> handleTitleOpenRound(c, next)
      [] c.state = "TitleConsuming" -> handleTitleConsuming(c, next)
      [] c.state = "TitleClosedRound" -> handleTitleClosedRound(c, next)
      [] c.state = "TableHeaderNames" -> handleTableHeaderNames(c, next)
      [] c.state = "TableHeaderSeparationPipeAwaiting" ->
             handleTableHeaderSeparationPipeAwaiting(c, next)
      [] c.state = "TableHeaderSeparation" -> handleTableHeaderSeparation(c, next)
      [] c.state = "TableCellPipeAwaiting" -> handleTableCellPipeAwaiting(c, next)
      [] c.state = "TableCellData" -> handleTableCellData(c, next)

(***************************************************************************)
(* class MarkdownParser                                                    *)
(***************************************************************************)
\* the Context after construction and reset_context(): the tree builder
\* holds the DOCSTART root, the table manager holds nothing
reset_context ==
    [EOF_Reached |-> FALSE, consumed |-> <<>>, counter |-> 0, alt_counter |-> 0,
     indent_level |-> 0, newline_counter |-> 0, src |-> <<>>, alt |-> <<>>,
     blockquote_in_list |-> FALSE, is_escaped |-> FALSE, is_image |-> FALSE,
     state |-> "Data", warning_msg |-> "", table_parsing_flag |-> FALSE,
     nodes |-> <<Node("Node", "DOCSTART", 0, <<>>, <<>>, <<>>)>>,
     root |-> 1, current |-> 1, table_root |-> 0, tm_current |-> 0,
     col_dims |-> 0, return_stack |-> <<>>, err |-> "none", logged |-> {}]

\* handle_escape_sequence keeping the backslash in front of the character
handle_escape_sequence_literal(c, next) ==
    IF is_escaped_char(next) THEN [c EXCEPT !.consumed = @ \o <<ChBackslash, next>>]
    ELSE IF next = ChNL THEN handle_unexpected_newline(c, <<ChBackslash>>, TRUE)
    ELSE [c EXCEPT !.consumed = Append(@, ToChar(ChBackslash + next))]

\* the second argument is the enumerator ElementType::EOF_Reached, which
\* converts to true
handle_escape_sequence(c, next) ==
    IF is_escaped_char(next) THEN [c EXCEPT !.consumed = Append(@, next)]
    ELSE IF next = ChNL THEN handle_unexpected_newline(c, <<ChBackslash>>, TRUE)
    ELSE [c EXCEPT !.consumed = Append(@, ToChar(ChBackslash + next))]

\* the two branches of the loop that end in continue
Escaping(c, next) ==
    \/ c.is_escaped
    \/ next = ChBackslash /\ c.state \notin {"CodeInline", "CodeBlock", "DataBacktick"}

\* the end of an iteration after the handler has run: the pending warning is
\* logged and newline_counter is reset; an exception skips both
end_of_iteration(handled, next) ==
    LET warned == IF handled.warning_msg # ""
                  THEN [LogWarning(handled, handled.warning_msg)
                           EXCEPT !.warning_msg = ""]
                  ELSE handled
    IN  IF Failed(handled) THEN handled
        ELSE IF warned.EOF_Reached THEN warned
        ELSE IF warned.newline_counter # 0 /\ next # ChNL
        THEN [warned EXCEPT !.newline_counter = 0]
        ELSE warned

\* is_escaped = false after handle_escape_sequence has returned
end_of_escape(escaped) ==
    IF Failed(escaped) THEN escaped ELSE [escaped EXCEPT !.is_escaped = FALSE]

\* one iteration of the loop of parse_document on the character next
LoopBody(c, next) ==
    IF c.is_escaped THEN end_of_escape(handle_escape_sequence(c, next))
    ELSE IF Escaping(c, next) THEN [c EXCEPT !.is_escaped = TRUE]
    ELSE end_of_iteration(state_handlers(c, next), next)

\* where the parser is after an iteration: an exception leaves parse_document
\* (main catches std::runtime_error), a null dereference ends the process and
\* the call through the uninitialized logger of the table manager does either
AfterLoop(c, before, next) ==
    IF c.err = "null_deref" THEN {"crashed"}
    ELSE IF c.err = "uninit_logger" THEN {"crashed", "aborted"}
    ELSE IF c.err = "runtime_error" THEN {"aborted"}
    ELSE IF c.EOF_Reached /\ ~Escaping(before, next) THEN {"done"}
    ELSE {"parsing"}

(***************************************************************************)
(* class CSS_Constructor.  styles_stream is the sequence of class blocks   *)
(* written so far; calls, kept for the properties, is the sequence of      *)
(* attributes add_css_attr_class has been called with.                     *)
(***************************************************************************)
\* the keys of the map attr_to_css
attr_to_css ==
    {"Bold", "Italic", "FontSize1", "FontSize2", "FontSize3", "FontSize4",
     "FontSize5", "FontSize6", "Inline", "Block", "BlockQuote", "TableRow",
     "TableHeader", "TableStyle", "TableCell", "ImageAttr"}

CSS_Constructor ==
    [used_attributes |-> {}, styles_stream |-> <<>>, err |-> "none", calls |-> <<>>]

\* the head of the block is written before the style is looked up
setup_css_class(k, attr) ==
    IF attr \notin attr_to_css
    THEN [k EXCEPT !.styles_stream = Append(@, [class |-> attr, closed |-> FALSE]),
                   !.err = "runtime_error"]
    ELSE [k EXCEPT !.styles_stream = Append(@, [class |-> attr, closed |-> TRUE])]

\* add_css_attr_class without the lookup in used_attributes
add_css_attr_class_always(k, attr) ==
    setup_css_class([k EXCEPT !.used_attributes = @ \cup {attr}], attr)

add_css_attr_class(k, attr) ==
    IF attr \in k.used_attributes THEN k
    ELSE setup_css_class([k EXCEPT !.used_attributes = @ \cup {attr}], attr)

(***************************************************************************)
(* class ArgumentParser.  An argument is a string; log_verbosity is kept  *)
(* as the decimal digits of the unsigned long, negative telling that      *)
(* strtoul negated it.                                                     *)
(***************************************************************************)
\* Arguments parsed: print_tree has no initializer
Arguments(print_tree) ==
    [input_file |-> <<>>, output_file |-> <<>>, styles_file |-> <<>>,
     print_tree |-> print_tree,
     log_verbosity |-> [negative |-> FALSE, digits |-> <<ChZero>>]]

\* std::stoul(val): leading whitespace, an optional sign, decimal digits;
\* std::invalid_argument without digits, std::out_of_range above ULONG_MAX
stoul(val) ==
    LET RECURSIVE SkipSpace(_)
        SkipSpace(i) ==
            IF i <= Len(val) /\ (val[i] = ChSpace \/ (val[i] >= ChTab /\ val[i] <= 13))
            THEN SkipSpace(i + 1) ELSE i
        RECURSIVE DigitsEnd(_)
        DigitsEnd(i) == IF i <= Len(val) /\ isdigit(val[i]) THEN DigitsEnd(i + 1) ELSE i
        RECURSIVE StripZeros(_)
        StripZeros(d) == IF Len(d) > 1 /\ d[1] = ChZero THEN StripZeros(Tail(d)) ELSE d
        RECURSIVE Greater(_, _)
        Greater(a, b) ==
            a # <<>> /\ (a[1] > b[1] \/ (a[1] = b[1] /\ Greater(Tail(a), Tail(b))))
        \* 18446744073709551615
        ULONG_MAX == <<49, 56, 52, 52, 54, 55, 52, 52, 48, 55,
                       51, 55, 48, 57, 53, 53, 49, 54, 49, 53>>
        start == SkipSpace(1)
        signed == start <= Len(val) /\ val[start] \in {ChPlus, ChDash}
        first == IF signed THEN start + 1 ELSE start
        last == DigitsEnd(first) - 1
        digits == StripZeros(SubSeq(val, first, last))
        none == [negative |-> FALSE, digits |-> <<>>]
    IN  IF last < first THEN [what |-> "invalid_argument", value |-> none]
        ELSE IF \/ Len(digits) > Len(ULONG_MAX)
                \/ Len(digits) = Len(ULONG_MAX) /\ Greater(digits, ULONG_MAX)
        THEN [what |-> "out_of_range", value |-> none]
        ELSE [what |-> "value",
              value |-> [negative |-> signed /\ val[start] = ChDash /\ digits # <<ChZero>>,
                         digits |-> digits]]

\* only std::invalid_argument is caught
set_parsed_arg(a, val, type) ==
    IF type = "InputFile" THEN [a EXCEPT !.parsed.input_file = val]
    ELSE IF type = "OutputFile" THEN [a EXCEPT !.parsed.output_file = val]
    ELSE IF type = "StylesFile" THEN [a EXCEPT !.parsed.styles_file = val]
    ELSE LET number == stoul(val)
         IN  IF number.what = "value"
             THEN [a EXCEPT !.parsed.log_verbosity = number.value]
             ELSE IF number.what = "invalid_argument" THEN a
             ELSE [a EXCEPT !.result = "out_of_range"]

\* result: "value" for an optional holding parsed, "nullopt", or the
\* exception that left the function
parse_arguments(argv, print_tree) ==
    LET RECURSIVE Loop(_, _, _, _)
        Loop(i, arg_set, last_type, a) ==
            IF a.result # "running" THEN a
            ELSE IF i > Len(argv) THEN
                [a EXCEPT !.result = "value",
                          !.parsed.output_file =
                              IF @ = <<>>
                              THEN <<111, 117, 116, 112, 117, 116, 46, 104, 116, 109, 108>>
                              ELSE @,
                          !.parsed.styles_file =
                              IF @ = <<>>
                              THEN <<115, 116, 121, 108, 101, 115, 46, 99, 115, 115>>
                              ELSE @]
            ELSE IF arg_set
            THEN Loop(i + 1, FALSE, last_type, set_parsed_arg(a, argv[i], last_type))
            ELSE IF Len(argv[i]) <= 1 \/ argv[i][1] # ChDash
                    \/ argv[i][2] \notin {ChI, ChO, ChS, ChV}
            THEN [a EXCEPT !.result = "nullopt"]
            ELSE LET type == CASE argv[i][2] = ChI -> "InputFile"
                               [] argv[i][2] = ChO -> "OutputFile"
                               [] argv[i][2] = ChS -> "StylesFile"
                               [] argv[i][2] = ChV -> "Logging"
                 IN  IF Len(argv[i]) = 2 THEN Loop(i + 1, TRUE, type, a)
                     ELSE Loop(i + 1, FALSE, type,
                               set_parsed_arg(a, SubSeq(argv[i], 3, Len(argv[i])), type))
    IN  Loop(1, FALSE, "InputFile", [result |-> "running", parsed |-> Arguments(print_tree)])

\* main before it has called parse_arguments
ArgumentParser == [argv |-> <<>>, result |-> "none", parsed |-> Arguments(FALSE)]

(***************************************************************************)
(* The input file.  read is what md_stream.get() has returned so far; the *)
(* documents fed to the parser are drawn from line languages: every line  *)
(* of a document is a line of the language, cut anywhere by the end of    *)
(* the file.                                                               *)
(***************************************************************************)
MaxLen == 5
MaxListLines == 3
MaxIndent == 5
MaxTableLines == 2
MaxEmphLines == 1
MaxSpanNewlines == 0
MaxBody == 2
MaxHashes == 8
MaxCols == 2
MaxWellRows == 1
MaxDashes == 5
MaxRuleLines == 2
MaxCssCalls == 3
MaxOptions == 2
MaxEmitterNodes == 4
MaxCode == 5
MaxQuoteLines == 3

RECURSIVE LastNL(_, _)
LastNL(s, i) == IF i = 0 \/ s[i] = ChNL THEN i ELSE LastNL(s, i - 1)

\* the characters read since the last newline
CurrentLine(s) == SubSeq(s, LastNL(s, Len(s)) + 1, Len(s))

Newlines(s) == Cardinality({i \in 1..Len(s) : s[i] = ChNL})

IsPrefix(p, l) == Len(p) <= Len(l) /\ SubSeq(l, 1, Len(p)) = p

\* the characters that may follow s in a document of at most max_lines
\* newline-terminated lines drawn from lines
NextOf(lines, max_lines, s) ==
    {next \in UNION {Range(l) : l \in lines} :
        \E l \in lines : IsPrefix(Append(CurrentLine(s), next), l)}
    \cup (IF CurrentLine(s) \in lines /\ Newlines(s) < max_lines THEN {ChNL} ELSE {})

\* the characters that may follow s in one of the documents docs
PrefixNext(docs, s) ==
    {next \in UNION {Range(doc) : doc \in docs} :
        \E doc \in docs : IsPrefix(Append(s, next), doc)}

Alphabet == {ChA, ChOne, ChSpace, ChNL, ChStar, ChHash, ChDash, ChBackslash, ChBang}

Init ==
    /\ cx = reset_context
    /\ read = <<>>
    /\ curr_line = 1
    /\ pc = "parsing"
    /\ css = CSS_Constructor
    /\ args = ArgumentParser

\* one iteration of while (true) in parse_document; eof says that
\* md_stream.get() returned -1
Step(next, eof) ==
    LET before == IF eof THEN [cx EXCEPT !.EOF_Reached = TRUE] ELSE cx
    IN  /\ cx' = LoopBody(before, next)
        /\ read' = IF eof THEN read ELSE Append(read, next)
        /\ curr_line' = IF next = ChNL THEN curr_line + 1 ELSE curr_line
        /\ pc' \in AfterLoop(cx', before, next)
        /\ UNCHANGED <<css, args>>

Feed(chars) ==
    /\ pc = "parsing"
    /\ ~cx.EOF_Reached
    /\ \E next \in chars : Step(next, FALSE)

ReadEOF ==
    /\ pc = "parsing"
    /\ Step(ChNL, TRUE)

Next == Feed(IF Len(read) < MaxLen THEN Alphabet ELSE {}) \/ ReadEOF

Spec == Init /\ [][Next]_vars

(***************************************************************************)
(* Line languages of the other specifications.                            *)
(***************************************************************************)
\* the non-empty strings over chars of length at most n
RECURSIVE Strings(_, _)
Strings(chars, n) ==
    IF n <= 0 THEN {}
    ELSE LET shorter == Strings(chars, n - 1)
         IN  {<<ch>> : ch \in chars} \cup shorter
             \cup {Append(w, ch) : w \in shorter, ch \in chars}

\* unordered items at every indentation, an item whose text is a digit,
\* ordered items, an item indented by a tab, and the empty line
ListLines ==
    {Repeat(ChSpace, s) \o <<ChDash, ChSpace, ChA>> : s \in 0..MaxIndent}
    \cup {Repeat(ChSpace, s) \o <<ChOne, ChDot, ChSpace, ChA>> : s \in {0, INDENTATION}}
    \cup {<<ChDash, ChSpace, ChOne>>, <<ChTab, ChDash, ChSpace, ChA>>, <<>>}

NextList == Feed(NextOf(ListLines, MaxListLines, read)) \/ ReadEOF

SpecList == Init /\ [][NextList]_vars

\* table rows of one and two cells, with and without the closing pipe,
\* separator rows, a line of text and the empty line
TableCells == {<<ChA>>, <<ChStar, ChA, ChStar>>}

TableRows ==
    {<<ChPipe>> \o x : x \in TableCells}
    \cup {<<ChPipe>> \o x \o <<ChPipe>> : x \in TableCells}
    \cup {<<ChPipe>> \o x \o <<ChPipe>> \o y : x \in {<<ChA>>}, y \in TableCells}
    \cup {<<ChPipe>> \o x \o <<ChPipe>> \o y \o <<ChPipe>> : x \in {<<ChA>>}, y \in TableCells}

TableLines ==
    TableRows
    \cup {<<ChPipe, ChDash, ChDash, ChDash, ChPipe>>,
          <<ChPipe, ChDash, ChDash, ChDash, ChPipe, ChDash, ChDash, ChDash, ChPipe>>,
          <<ChA>>, <<>>}

NextTable == Feed(NextOf(TableLines, MaxTableLines, read)) \/ ReadEOF

SpecTable == Init /\ [][NextTable]_vars

\* the bodies x of *x*, **x** and ***x***
Bodies == Strings({ChA, ChOne, ChSpace}, MaxBody)

EmphLines == {Repeat(ChStar, k) \o x \o Repeat(ChStar, k) : k \in 1..3, x \in Bodies}

NextEmph == Feed(NextOf(EmphLines, MaxSpanNewlines, read)) \/ ReadEOF

SpecEmph == Init /\ [][NextEmph]_vars

\* heading lines: k hashes, a space and a text
HeadLines == {Repeat(ChHash, k) \o <<ChSpace>> \o x : k \in 1..MaxHashes, x \in Bodies}

NextHead == Feed(NextOf(HeadLines, MaxEmphLines, read)) \/ ReadEOF

SpecHead == Init /\ [][NextHead]_vars

\* inline constructs at the start of a line: emphasis followed by text,
\* inline code, an image without and with a title, a link
InlineLines ==
    {<<ChStar, ChStar, ChA, ChStar, ChStar, ChSpace, ChA>>,
     <<ChStar, ChA, ChStar>>,
     <<ChBacktick, ChA, ChBacktick>>,
     <<ChBang, ChLBracket, ChA, ChRBracket, ChLParen, ChB, ChRParen>>,
     <<ChBang, ChLBracket, ChA, ChRBracket, ChLParen, ChB, ChSpace, ChQuote, ChA,
       ChQuote, ChRParen>>,
     <<ChLBracket, ChA, ChRBracket, ChLParen, ChB, ChRParen>>,
     <<ChA>>}

NextInline == Feed(NextOf(InlineLines, MaxEmphLines, read)) \/ ReadEOF

SpecInline == Init /\ [][NextInline]_vars

\* the concatenation of a sequence of strings
RECURSIVE Flatten(_)
Flatten(seqs) == IF seqs = <<>> THEN <<>> ELSE Head(seqs) \o Flatten(Tail(seqs))

\* well-formed tables: a header row of n columns, a separator row of n dash
\* groups and body rows of n cells, every line ended by its newline
WellCells == {<<ChA>>, <<ChOne>>}

WellDashes == {1, 3}

RowLine(cells) ==
    <<ChPipe>> \o Flatten([i \in 1..Len(cells) |-> cells[i] \o <<ChPipe>>])

SeparatorLine(n, d) == RowLine([i \in 1..n |-> Repeat(ChDash, d)])

WellTable(p) ==
    RowLine(p.header) \o <<ChNL>> \o SeparatorLine(Len(p.header), p.dashes) \o <<ChNL>>
    \o Flatten([j \in 1..Len(p.rows) |-> RowLine(p.rows[j]) \o <<ChNL>>])

WellTableParams ==
    UNION {[header : [1..n -> WellCells], dashes : WellDashes,
            rows : [1..k -> [1..n -> WellCells]]] :
              n \in 1..MaxCols, k \in 1..MaxWellRows}

NextWell == Feed(PrefixNext({WellTable(p) : p \in WellTableParams}, read)) \/ ReadEOF

SpecWell == Init /\ [][NextWell]_vars

\* well-formed tables whose first header cell and first body cells hold a
\* letter, a link, an emphasis or an inline code
NextCell ==
    LET first == {<<ChA>>, <<ChLBracket, ChA, ChRBracket, ChLParen, ChB, ChRParen>>,
                  <<ChStar, ChA, ChStar>>, <<ChBacktick, ChA, ChBacktick>>}
        Row(cell, n) == [i \in 1..n |-> IF i = 1 THEN cell ELSE <<ChA>>]
        docs == UNION {{WellTable([header |-> Row(h, n), dashes |-> 3,
                                   rows |-> [j \in 1..k |-> Row(cells[j], n)]]) :
                           h \in first, cells \in [1..k -> first]} :
                       n \in 1..MaxCols, k \in 1..MaxWellRows}
    IN  Feed(PrefixNext(docs, read)) \/ ReadEOF

SpecCell == Init /\ [][NextCell]_vars

\* escape sequences: a backslash and an escapable character, alone, after a
\* letter, before a letter and before a newline
EscapeDocs ==
    UNION {{<<ChBackslash, e>>, <<ChA, ChBackslash, e>>, <<ChBackslash, e, ChA>>,
            <<ChBackslash, e, ChNL>>} : e \in escaped_chars}

NextEscape == Feed(PrefixNext(EscapeDocs, read)) \/ ReadEOF

SpecEscape == Init /\ [][NextEscape]_vars

\* a '|' inside an unclosed inline construct of a table: the construct is the
\* first cell of the header row, or of the first body row of a table of two
\* columns
PipeDocs ==
    LET constructs ==
            {<<ChStar>>, <<ChStar, ChA>>, <<ChStar, ChStar>>, <<ChStar, ChStar, ChA>>,
             <<ChStar, ChStar, ChA, ChStar>>, <<ChStar, ChStar, ChStar>>,
             <<ChStar, ChStar, ChStar, ChA>>, <<ChStar, ChStar, ChStar, ChA, ChStar>>,
             <<ChBacktick>>, <<ChBacktick, ChA>>,
             <<ChLBracket, ChA>>, <<ChLBracket, ChA, ChRBracket>>,
             <<ChLBracket, ChA, ChRBracket, ChLParen, ChB>>,
             <<ChLBracket, ChA, ChRBracket, ChLParen, ChB, ChSpace>>,
             <<ChLBracket, ChA, ChRBracket, ChLParen, ChB, ChSpace, ChQuote, ChA>>,
             <<ChLBracket, ChA, ChRBracket, ChLParen, ChB, ChSpace, ChQuote, ChA,
               ChQuote>>}
        tables == {<<>>, <<ChPipe, ChA, ChPipe, ChA, ChPipe, ChNL,
                           ChPipe, ChDash, ChDash, ChDash,
                           ChPipe, ChDash, ChDash, ChDash, ChPipe, ChNL>>}
    IN  {table \o <<ChPipe>> \o construct \o <<ChPipe>> :
            table \in tables, construct \in constructs}

NextPipe == Feed(PrefixNext(PipeDocs, read)) \/ ReadEOF

SpecPipe == Init /\ [][NextPipe]_vars

\* Code blocks: an optional letter or an optional pipe that opens a table
\* header, three backticks, then at most MaxCode characters drawn from the
\* characters a code block may hold.
NextCode ==
    LET opening == IF read # <<>> /\ read[1] # ChBacktick THEN 4 ELSE 3
    IN  \/ Feed(IF read = <<>> THEN {ChA, ChPipe, ChBacktick}
                ELSE IF Len(read) < opening THEN {ChBacktick}
                ELSE IF Len(read) < opening + MaxCode
                     THEN {ChA, ChNL, ChBackslash, ChPipe, ChStar, ChHash, ChBacktick}
                     ELSE {})
        \/ ReadEOF

SpecCode == Init /\ [][NextCode]_vars

\* Lists with '>' markers: a first item, items whose marker is '>' with and
\* without the space after it, at two depths, and lines that leave the list.
NextQuote ==
    \/ Feed(NextOf({<<ChDash, ChSpace, ChA>>, <<ChOne, ChDot, ChSpace, ChA>>,
                    <<ChGt, ChSpace, ChA>>, <<ChGt, ChA>>,
                    Repeat(ChSpace, INDENTATION) \o <<ChGt, ChSpace, ChA>>,
                    <<ChA>>, <<ChHash, ChSpace, ChA>>, <<>>},
                   MaxQuoteLines, read))
    \/ ReadEOF

SpecQuote == Init /\ [][NextQuote]_vars

\* lines of dashes, a line of text and the empty line
DashLines == {Repeat(ChDash, n) : n \in 0..MaxDashes} \cup {<<ChA>>}

NextRule == Feed(NextOf(DashLines, MaxRuleLines, read)) \/ ReadEOF

SpecRule == Init /\ [][NextRule]_vars

\* the visitor calls add_css_attr_class for an attribute of a node
AddCssAttrClass ==
    /\ css.err = "none"
    /\ Len(css.calls) < MaxCssCalls
    /\ \E attr \in Range(Attribute) :
           css' = [add_css_attr_class(css, attr) EXCEPT !.calls = Append(@, attr)]
    /\ UNCHANGED <<cx, read, curr_line, pc, args>>

SpecCss == Init /\ [][AddCssAttrClass]_vars

\* the emitter driven directly: the tokens of a table and its cells in any
\* order, and both flags, while the nodes made so far are at most
\* MaxEmitterNodes
EmitterTokens ==
    {Token(type, element, <<>>, <<>>, <<>>) :
        type \in {"OpenToken", "CloseToken"},
        element \in {"Table_Row", "Table_Head", "Table_Cell"}}
    \cup {Token("OpenToken", "Table", <<>>, <<>>, <<>>),
          Token("ContentToken", "Content", <<ChA>>, <<>>, <<>>),
          Token("CloseToken", "DOCSTART", <<>>, <<>>, <<>>),
          Token("EOF_Token", "DOCSTART", <<>>, <<>>, <<>>)}

EmitToken ==
    /\ ~Failed(cx)
    /\ \E to_emit \in EmitterTokens : cx' = Token_Emitter_emit_token(cx, to_emit)
    /\ Len(cx'.nodes) <= MaxEmitterNodes
    /\ UNCHANGED <<read, curr_line, pc, css, args>>

HandleFlag ==
    /\ ~Failed(cx)
    /\ \E flag \in {"TableFailed", "TableSuccess"} : cx' = handle_flag(cx, flag)
    /\ UNCHANGED <<read, curr_line, pc, css, args>>

SpecEmitter == Init /\ [][EmitToken \/ HandleFlag]_vars

\* command lines: up to MaxOptions options, each a flag of -i -o -s -v with a
\* value (a letter, a digit, twenty nines) attached to it or following it
OptionLists ==
    UNION {[1..k -> [flag : {ChI, ChO, ChS, ChV},
                     value : {<<ChA>>, <<ChOne>>, Repeat(ChZero + 9, 20)},
                     attached : BOOLEAN]] : k \in 0..MaxOptions}

\* args_v(argv+1, argv+argc)
ArgvOf(options) ==
    Flatten([j \in 1..Len(options) |->
                IF options[j].attached
                THEN <<<<ChDash, options[j].flag>> \o options[j].value>>
                ELSE <<<<ChDash, options[j].flag>>, options[j].value>>])

CallParseArguments ==
    /\ args.result = "none"
    /\ \E options \in OptionLists, print_tree \in BOOLEAN :
           args' = Then(parse_arguments(ArgvOf(options), print_tree),
                        LAMBDA a : [argv |-> ArgvOf(options), result |-> a.result,
                                    parsed |-> a.parsed])
    /\ UNCHANGED <<cx, read, curr_line, pc, css>>

SpecArgs == Init /\ [][CallParseArguments]_vars

(***************************************************************************)
(* The tree returned by get_root(), as the properties read it.            *)
(***************************************************************************)
\* the nodes the returned root owns, the root included
TreeNodes == Owned(cx.nodes, {cx.root}, {})

\* the places <<parent, index>> of the children lists of the tree
ChildSlots ==
    UNION {{<<p, i>> : i \in 1..Len(cx.nodes[p].children)} : p \in TreeNodes}

\* how often a node occurs in the children lists of the tree
Occurrences(id) ==
    Cardinality({slot \in ChildSlots : cx.nodes[slot[1]].children[slot[2]] = id})

\* the subtree of a node as a value: element, attributes, text and children
RECURSIVE Tree(_, _)
Tree(nodes, id) ==
    [element |-> nodes[id].element, attributes |-> nodes[id].attributes,
     content |-> nodes[id].content, alt |-> nodes[id].alt, title |-> nodes[id].title,
     children |-> [i \in 1..Len(nodes[id].children) |->
                      Tree(nodes, nodes[id].children[i])]]

Elem(element, attributes, children) ==
    [element |-> element, attributes |-> attributes, content |-> <<>>,
     alt |-> <<>>, title |-> <<>>, children |-> children]

Leaf(text) ==
    [element |-> "Content", attributes |-> <<>>, content |-> text,
     alt |-> <<>>, title |-> <<>>, children |-> <<>>]

\* the texts of the Content leaves under a node, in document order
RECURSIVE Text(_, _)
Text(nodes, id) ==
    IF nodes[id].element = "Content" THEN nodes[id].content
    ELSE Flatten([i \in 1..Len(nodes[id].children) |->
                     Text(nodes, nodes[id].children[i])])

RECURSIVE TrimNewlines(_)
TrimNewlines(s) ==
    IF s # <<>> /\ s[Len(s)] = ChNL THEN TrimNewlines(SubSeq(s, 1, Len(s) - 1)) ELSE s

\* ordinary letters, digits, spaces and newlines
IsPlain(s) == \A i \in 1..Len(s) : s[i] \in {ChA, ChB, ChOne, ChSpace, ChNL}

Returned == pc = "done"

\* C1: whenever parse_document returns a tree, its root is the DOCSTART node,
\* the root is nobody's child, and every other node of the tree is alive and
\* occurs exactly once in the children lists of the tree, the table subtree
\* and the demoted row grafted by append_subtree included.
C1_RootUniqueness ==
    Returned =>
        /\ cx.nodes[cx.root].element = "DOCSTART"
        /\ Occurrences(cx.root) = 0
        /\ \A id \in TreeNodes \ {cx.root} :
              /\ Occurrences(id) = 1
              /\ ~cx.nodes[id].freed

\* a returned tree holding a grafted Table and, after it, the Paragraph that
\* emit_row_as_paragraph made of the last row
C1_Witness ==
    /\ Returned
    /\ \E i \in 1..Len(cx.nodes[cx.root].children) :
          \E j \in 1..Len(cx.nodes[cx.root].children) :
              /\ i < j
              /\ cx.nodes[cx.nodes[cx.root].children[i]].element = "Table"
              /\ cx.nodes[cx.nodes[cx.root].children[j]].element = "Paragraph"
              /\ cx.nodes[cx.nodes[cx.root].children[j]].attributes = <<"TableRow">>
              /\ cx.nodes[cx.nodes[cx.root].children[j]].children # <<>>

\* C2: the cursor of the tree builder is never null while parse_document
\* consumes input, whatever the input.
C2_CursorNeverNull == cx.current # 0

\* C3: when parse_document stops, the cursor of the tree builder is the
\* DOCSTART root: everything opened during the parse has been closed.
C3_CursorClosure == Returned => cx.current = cx.root

\* C4: for an input of letters, digits, spaces and newlines, the texts of the
\* Content leaves of the returned tree, concatenated in order, are the input
\* with its trailing newlines trimmed.
C4_ContentPreservation ==
    (Returned /\ IsPlain(read)) => Text(cx.nodes, cx.root) = TrimNewlines(read)

\* C5: from the initial state the inputs *x*, **x** and ***x***, x without
\* sigils, give exactly one Span with the attributes Italic, Bold and
\* Bold+Italic, holding the single Content x, and the tokenizer is back in
\* the state Data it was in before the opening asterisk.
EmphAttributes(k) ==
    IF k = 1 THEN {"Italic"} ELSE IF k = 2 THEN {"Bold"} ELSE {"Bold", "Italic"}

C5_EmphasisClosure ==
    \A k \in 1..3 : \A x \in Bodies :
        read = Repeat(ChStar, k) \o x \o Repeat(ChStar, k) =>
            /\ cx.err = "none"
            /\ Len(cx.nodes[cx.root].children) = 1
            /\ LET span == cx.nodes[cx.root].children[1]
               IN  /\ cx.nodes[span].element = "Span"
                   /\ Range(cx.nodes[span].attributes) = EmphAttributes(k)
                   /\ Len(cx.nodes[span].attributes) = Cardinality(EmphAttributes(k))
                   /\ Tree(cx.nodes, span).children = <<Leaf(x)>>
            /\ {id \in TreeNodes : cx.nodes[id].element = "Span"}
                   = {cx.nodes[cx.root].children[1]}
            /\ cx.state = "Data"
            /\ cx.return_stack = <<>>

\* ***a1*** has been read and its Span stands under the root
C5_Witness ==
    /\ read = <<ChStar, ChStar, ChStar, ChA, ChOne, ChStar, ChStar, ChStar>>
    /\ pc = "parsing"
    /\ Len(cx.nodes) = 3
    /\ cx.nodes[2].attributes = <<"Bold", "Italic">>
    /\ cx.nodes[3].content = <<ChA, ChOne>>

\* the number of '#' a text begins with
RECURSIVE LeadingHashes(_)
LeadingHashes(s) ==
    IF s # <<>> /\ Head(s) = ChHash THEN 1 + LeadingHashes(Tail(s)) ELSE 0

\* the line has been read and handled up to its end
LineDone(line) == read = Append(line, ChNL) \/ (read = line /\ Returned)

\* C6: the line of k hashes, a space and a text x gives, for k from 1 to 6,
\* the root with one Header_k carrying Bold and FontSize_k and the Content x;
\* for k of 7 and more it gives no header but a Paragraph whose text begins
\* with exactly k hashes.
C6_HeadingBound ==
    \A k \in 1..MaxHashes : \A x \in Bodies :
        LineDone(Repeat(ChHash, k) \o <<ChSpace>> \o x) =>
            IF k <= 6
            THEN Tree(cx.nodes, cx.root) =
                     Elem("DOCSTART", <<>>,
                          <<Elem(enumOp(ElementType, "Header_1", k - 1),
                                 <<"Bold", enumOp(Attribute, "FontSize1", k - 1)>>,
                                 <<Leaf(x)>>)>>)
            ELSE /\ Len(cx.nodes[cx.root].children) = 1
                 /\ cx.nodes[cx.nodes[cx.root].children[1]].element = "Paragraph"
                 /\ LeadingHashes(Text(cx.nodes, cx.root)) = k

\* C7: an emphasis Span, a Codeblock or an Image recognised at the top level
\* is never a direct child of the DOCSTART root (it lies in a Paragraph).
C7_InlineWrapped ==
    \A i \in 1..Len(cx.nodes[cx.root].children) :
        LET child == cx.nodes[cx.nodes[cx.root].children[i]]
        IN  /\ child.element \notin {"Codeblock", "ImageType"}
            /\ child.element = "Span" => "BlockQuote" \in Range(child.attributes)

\* the width of the leading whitespace of a line, a tab counting as 4
RECURSIVE LeadingWidth(_)
LeadingWidth(line) ==
    IF line # <<>> /\ Head(line) = ChSpace THEN 1 + LeadingWidth(Tail(line))
    ELSE IF line # <<>> /\ Head(line) = ChTab THEN INDENTATION + LeadingWidth(Tail(line))
    ELSE 0

RECURSIVE DropWhitespace(_)
DropWhitespace(line) ==
    IF line # <<>> /\ Head(line) \in {ChSpace, ChTab} THEN DropWhitespace(Tail(line))
    ELSE line

\* the number of lists that enclose a node
RECURSIVE ListDepth(_, _)
ListDepth(nodes, id) ==
    IF id = 0 THEN 0
    ELSE (IF nodes[id].element \in {"List_Unordered", "List_Ordered"} THEN 1 ELSE 0)
         + ListDepth(nodes, nodes[id].parent)

\* the marker of a list item line has just been read and the cursor stands
\* in the List_Element opened for it
ItemCreated ==
    /\ pc = "parsing"
    /\ cx.err = "none"
    /\ DropWhitespace(CurrentLine(read)) \in {<<ChDash, ChSpace>>, <<ChOne, ChDot, ChSpace>>}
    /\ cx.current # 0
    /\ cx.nodes[cx.current].element = "List_Element"
    /\ cx.nodes[cx.current].children = <<>>

\* C8: the List_Element created for a list item line with s leading spaces
\* (a tab counting as 4) lies at list nesting depth floor(s/4)+1.
C8_ListIndent ==
    ItemCreated =>
        ListDepth(cx.nodes, cx.current)
            = (LeadingWidth(CurrentLine(read)) \div INDENTATION) + 1

\* the input is n >= 1 lines "- t", each ended by its newline
IsFlatList(s) ==
    /\ s # <<>>
    /\ Len(s) % 4 = 0
    /\ \A j \in 0..((Len(s) \div 4) - 1) :
          /\ s[4 * j + 1] = ChDash
          /\ s[4 * j + 2] = ChSpace
          /\ s[4 * j + 3] \in {ChA, ChOne}
          /\ s[4 * j + 4] = ChNL

\* C9: n lines "- text_i" at indentation 0 give one List_Unordered under the
\* root with n List_Element children in input order, each with the one
\* Content text_i, and at the end of the input the list is closed: the
\* cursor is back at the root.
C9_FlatList ==
    (Returned /\ IsFlatList(read)) =>
        /\ Tree(cx.nodes, cx.root) =
               Elem("DOCSTART", <<>>,
                    <<Elem("List_Unordered", <<>>,
                           [j \in 1..(Len(read) \div 4) |->
                               Elem("List_Element", <<>>,
                                    <<Leaf(<<read[4 * (j - 1) + 3]>>)>>)])>>)
        /\ cx.current = cx.root

\* C10: in every Table grafted into the tree, every row after the header row
\* has as many children as the header row has columns, all of them
\* Table_Cell nodes.
C10_TableWidth ==
    \A t \in TreeNodes :
        cx.nodes[t].element = "Table" =>
            LET rows == cx.nodes[t].children
            IN  \A i \in 2..Len(rows) :
                    /\ Len(cx.nodes[rows[i]].children) = Len(cx.nodes[rows[1]].children)
                    /\ \A j \in 1..Len(cx.nodes[rows[i]].children) :
                          cx.nodes[cx.nodes[rows[i]].children[j]].element = "Table_Cell"

\* the tree of a well-formed table: the header row of Table_Head nodes and
\* one row of Table_Cell nodes for every body row
ExpectedTable(p) ==
    LET cells(element, attribute, texts) ==
            Elem("Table_Row", <<"TableRow">>,
                 [i \in 1..Len(texts) |-> Elem(element, <<attribute>>, <<Leaf(texts[i])>>)])
    IN  Elem("DOCSTART", <<>>,
             <<Elem("Table", <<"TableStyle">>,
                    <<cells("Table_Head", "TableHeader", p.header)>>
                    \o [j \in 1..Len(p.rows) |->
                           cells("Table_Cell", "TableCell", p.rows[j])])>>)

\* C11: a header row of n columns, a separator row of n dash groups (one dash
\* per column suffices) and body rows of n cells give DOCSTART[Table[...]] with
\* the header texts in Table_Head nodes and the cell texts in Table_Cell nodes.
C11_WellFormedTable ==
    \A p \in WellTableParams :
        (Returned /\ read = WellTable(p)) => Tree(cx.nodes, cx.root) = ExpectedTable(p)

\* C11 with separator groups of at least three dashes
C11_WellFormedTable3 ==
    \A p \in WellTableParams :
        (Returned /\ read = WellTable(p) /\ p.dashes >= 3) =>
            Tree(cx.nodes, cx.root) = ExpectedTable(p)

C11_Witness ==
    /\ Returned
    /\ read = WellTable([header |-> <<<<ChA>>, <<ChOne>>>>, dashes |-> 3,
                         rows |-> <<<<<<ChOne>>, <<ChA>>>>>>])
    /\ Len(cx.nodes[cx.root].children) = 1
    /\ cx.nodes[cx.nodes[cx.root].children[1]].element = "Table"

\* C12: when a column of the separator row has fewer than three dashes, the
\* returned tree holds no Table node and the Content leaves hold the header
\* line and the separator line character by character, every '|' included.
C12_TableDegradation ==
    \A p \in WellTableParams :
        (/\ Returned
         /\ p.dashes < 3
         /\ read = RowLine(p.header) \o <<ChNL>>
                      \o SeparatorLine(Len(p.header), p.dashes) \o <<ChNL>>) =>
            /\ \A t \in TreeNodes : cx.nodes[t].element # "Table"
            /\ Text(cx.nodes, cx.root) =
                    RowLine(p.header) \o SeparatorLine(Len(p.header), p.dashes)

\* C13: for every escapable character e the input backslash e gives the single
\* Content leaf e in a plain Paragraph: no other element is created and no
\* attribute is added.
C13_EscapeIdempotence ==
    \A e \in escaped_chars :
        (Returned /\ read = <<ChBackslash, e>>) =>
            Tree(cx.nodes, cx.root) =
                Elem("DOCSTART", <<>>, <<Elem("Paragraph", <<>>, <<Leaf(<<e>>)>>)>>)

C13_Witness ==
    /\ Returned
    /\ read = <<ChBackslash, ChStar>>
    /\ Len(cx.nodes) = 3
    /\ cx.nodes[3].content = <<ChStar>>

\* C14: once a first line of n >= 1 dashes and its newline have been read, the
\* tree is DOCSTART[Horizontalline] if n >= 3 and DOCSTART[Paragraph[n dashes]]
\* if n < 3: a rule exists iff n >= 3, and no list is created.
C14_HorizontalRuleBound ==
    \A n \in 1..MaxDashes :
        read = Append(Repeat(ChDash, n), ChNL) =>
            Tree(cx.nodes, cx.root) =
                Elem("DOCSTART", <<>>,
                     <<IF n >= 3 THEN Elem("Horizontalline", <<>>, <<>>)
                       ELSE Elem("Paragraph", <<>>, <<Leaf(Repeat(ChDash, n))>>)>>)

C14_Witness ==
    /\ read = <<ChDash, ChDash, ChDash, ChNL>>
    /\ Len(cx.nodes) = 2
    /\ cx.nodes[2].element = "Horizontalline"
    /\ cx.nodes[1].children = <<2>>

\* C15: the stylesheet holds exactly one class block for every attribute
\* add_css_attr_class has been called with and none for the others, and a call
\* with an attribute already added leaves the stylesheet and the set of used
\* attributes as they were.
C15_CssClassUniqueness ==
    /\ [](\A attr \in Range(Attribute) :
             Cardinality({i \in DOMAIN css.styles_stream :
                             css.styles_stream[i].class = attr})
                 = IF attr \in Range(css.calls) THEN 1 ELSE 0)
    /\ [][(/\ css'.calls # css.calls
           /\ css'.calls[Len(css'.calls)] \in Range(css.calls)) =>
              /\ css'.styles_stream = css.styles_stream
              /\ css'.used_attributes = css.used_attributes]_vars

C15_Witness ==
    /\ css.calls = <<"Bold", "Italic", "Bold">>
    /\ Len(css.styles_stream) = 2
    /\ css.used_attributes = {"Bold", "Italic"}

\* C16: for a command line made of the flags -i, -o, -s, -v, each with its
\* value attached or following, parse_arguments returns a value in which every
\* option holds the value of its last occurrence (the number it denotes for -v
\* when it is a decimal number), -o and -s defaulting to output.html and
\* styles.css and -i and -v to the empty string and 0.
C16_ArgumentParsing ==
    LET RECURSIVE LastValue(_, _, _)
        LastValue(options, flag, default) ==
            IF options = <<>> THEN default
            ELSE IF options[Len(options)].flag = flag THEN options[Len(options)].value
            ELSE LastValue(SubSeq(options, 1, Len(options) - 1), flag, default)
    IN  \A options \in OptionLists :
            (args.result # "none" /\ args.argv = ArgvOf(options)) =>
                /\ args.result = "value"
                /\ args.parsed.input_file = LastValue(options, ChI, <<>>)
                /\ args.parsed.output_file =
                       LastValue(options, ChO,
                                 <<111, 117, 116, 112, 117, 116, 46, 104, 116, 109, 108>>)
                /\ args.parsed.styles_file =
                       LastValue(options, ChS,
                                 <<115, 116, 121, 108, 101, 115, 46, 99, 115, 115>>)
                /\ LET verbosity == LastValue(options, ChV, <<ChZero>>)
                   IN  (\A i \in 1..Len(verbosity) : isdigit(verbosity[i])) =>
                           args.parsed.log_verbosity =
                               [negative |-> FALSE, digits |-> verbosity]

\* C17: parse_document terminates on every finite input: the iteration that
\* reads the end of the stream sets EOF_Reached, injects one newline and is
\* the last iteration of the loop, whatever the state of the tokenizer and
\* also when the input ends with a backslash.
C17_Termination ==
    [][ReadEOF => (cx'.EOF_Reached /\ pc' # "parsing")]_vars

C19_FlagResetsManager ==
    [][(HandleFlag /\ ~Failed(cx')) =>
          /\ ~cx'.table_parsing_flag
          /\ cx'.table_root = 0
          /\ cx'.col_dims = 0]_vars

\* C20: emit_on_failure, called on a table with at least one row, removes the
\* last row; it appends the remaining table under the main cursor exactly when
\* a body row is left in it (not when only the header row or nothing is left),
\* then appends the removed row as a Paragraph holding, for each cell in
\* order, a Content leaf "|" followed by the children of the cell; the main
\* cursor does not move.
C20_EmitOnFailure ==
    [][LET kids == cx.nodes[cx.table_root].children
           last_row_p == kids[Len(kids)]
           cells == cx.nodes[last_row_p].children
           remaining == [Tree(cx.nodes, cx.table_root)
                            EXCEPT !.children = SubSeq(@, 1, Len(@) - 1)]
           paragraph ==
               Elem("Paragraph", cx.nodes[last_row_p].attributes,
                    Flatten([i \in 1..Len(cells) |->
                                <<Leaf(<<ChPipe>>)>> \o Tree(cx.nodes, cells[i]).children]))
       IN  (/\ ~Failed(cx) /\ cx.table_root # 0 /\ kids # <<>>
            /\ cx' = handle_flag(cx, "TableFailed") /\ ~Failed(cx')) =>
               /\ cx'.current = cx.current
               /\ Tree(cx'.nodes, cx'.current).children =
                      Tree(cx.nodes, cx.current).children
                      \o (IF Len(kids) >= 3 THEN <<remaining>> ELSE <<>>)
                      \o <<paragraph>>]_vars

\* C21: when the header row is closed, the one head that is discarded is the
\* last Table_Head of the row, made by the terminating '|', and it has no
\* children; col_dims becomes the number of heads that remain, and keeps its
\* value as long as the table manager holds the same table.
C21_HeaderProtocol ==
    [][/\ (cx.table_root # 0 /\ cx.col_dims = 0 /\ cx'.col_dims # 0
             /\ cx'.table_root = cx.table_root) =>
              LET rows == cx.nodes[cx.table_root].children
                  heads == cx.nodes[rows[Len(rows)]].children
              IN  /\ cx.nodes[rows[Len(rows)]].element = "Table_Row"
                  /\ heads # <<>>
                  /\ cx.nodes[heads[Len(heads)]].element = "Table_Head"
                  /\ cx.nodes[heads[Len(heads)]].children = <<>>
                  /\ cx'.nodes[rows[Len(rows)]].children =
                         SubSeq(heads, 1, Len(heads) - 1)
                  /\ cx'.col_dims = Len(heads) - 1
       /\ (cx.table_root # 0 /\ cx.col_dims # 0 /\ cx'.table_root = cx.table_root) =>
              cx'.col_dims = cx.col_dims]_vars

\* C22: when the tree builder consumes a token without failing, an Open token
\* makes exactly one new node, of the element of the token, the last child of
\* the node under the cursor and moves the cursor to it; a Close token of the
\* cursor's element moves the cursor to its parent and changes no node; a
\* Content token makes exactly one Content leaf with the text of the token
\* the last child of the node under the cursor and leaves the cursor; an EOF
\* token changes nothing; and append_subtree, called by emit_on_success, makes
\* the given root the last child of the node under the cursor and leaves the
\* cursor.
C22_CursorDiscipline ==
    [][/\ \A token \in EmitterTokens :
              (/\ ~Failed(cx) /\ cx.current # 0
               /\ cx' = TreeBuilder_consume_token(cx, token) /\ ~Failed(cx')) =>
                  LET id == Len(cx.nodes) + 1
                      attached ==
                          /\ Len(cx'.nodes) = id
                          /\ \A n \in 1..Len(cx.nodes) :
                                 cx'.nodes[n] =
                                     IF n = cx.current
                                     THEN [cx.nodes[n] EXCEPT !.children = Append(@, id)]
                                     ELSE cx.nodes[n]
                          /\ cx'.nodes[id].element = token.element
                          /\ cx'.nodes[id].parent = cx.current
                          /\ cx'.nodes[id].children = <<>>
                          /\ cx'.nodes[id].content = token.content
                      kept == [cx' EXCEPT !.nodes = cx.nodes, !.current = cx.current] = cx
                  IN  CASE token.type = "OpenToken" ->
                               attached /\ cx'.current = id /\ kept
                        [] token.type = "CloseToken" ->
                               /\ token.element = cx.nodes[cx.current].element
                               /\ cx'.nodes = cx.nodes
                               /\ cx'.current = cx.nodes[cx.current].parent
                               /\ [cx' EXCEPT !.current = cx.current, !.logged = cx.logged]
                                      = cx
                        [] token.type = "ContentToken" ->
                               /\ attached /\ cx'.current = cx.current /\ kept
                               /\ cx'.nodes[id].kind = "ContentNode"
                        [] token.type = "EOF_Token" -> cx' = cx
       /\ (/\ ~Failed(cx) /\ cx.table_root # 0
           /\ cx' = handle_flag(cx, "TableSuccess") /\ ~Failed(cx')) =>
              /\ cx'.current = cx.current
              /\ cx'.nodes = [cx.nodes EXCEPT ![cx.current].children =
                                                  Append(@, cx.table_root)]]_vars

\* the builder has opened a node under the root, put a leaf in it and closed it
C22_Witness ==
    /\ ~cx.table_parsing_flag /\ cx.table_root = 0 /\ cx.current = cx.root
    /\ Tree(cx.nodes, cx.root) =
           Elem("DOCSTART", <<>>, <<Elem("Table_Row", <<>>, <<Leaf(<<ChA>>)>>)>>)

\* C23: a Close token whose element differs from the element of the node
\* under the cursor fails with the runtime_error of the tree builder and
\* leaves the nodes and the cursor as they were; a Close token of the cursor's
\* element does not fail, and the Close of DOCSTART at the root only logs a
\* warning.
C23_CloseMismatch ==
    [][\A token \in EmitterTokens :
          (/\ ~Failed(cx) /\ cx.current # 0 /\ token.type = "CloseToken"
           /\ cx' = TreeBuilder_consume_token(cx, token)) =>
              IF token.element # cx.nodes[cx.current].element
              THEN cx' = [cx EXCEPT !.err = "runtime_error"]
              ELSE /\ ~Failed(cx')
                   /\ (token.element = "DOCSTART") = (cx'.logged # cx.logged)]_vars

\* a Close of Table_Head has met the open Table_Row under the root
C23_Witness ==
    /\ cx.err = "runtime_error"
    /\ ~cx.table_parsing_flag /\ cx.table_root = 0
    /\ cx.current # 0 /\ cx.nodes[cx.current].element = "Table_Row"
    /\ Tree(cx.nodes, cx.root) = Elem("DOCSTART", <<>>, <<Elem("Table_Row", <<>>, <<>>)>>)

\* C24: outside a table, when the input so far is one to three asterisks, a
\* body without asterisks and fewer closing asterisks than opening ones, and a
\* newline (read or injected at the end of the file) arrives in one of the six
\* asterisk states, the tree holds no Span, a warning is logged and the text of
\* the tree is exactly the input so far: the opening asterisks, the body once
\* and the closing asterisks read.
C24_EmphasisRollback ==
    [][LET RECURSIVE Leading(_)
           Leading(s) == IF s # <<>> /\ Head(s) = ChStar THEN 1 + Leading(Tail(s)) ELSE 0
           RECURSIVE Trailing(_)
           Trailing(s) ==
               IF s # <<>> /\ s[Len(s)] = ChStar
               THEN 1 + Trailing(SubSeq(s, 1, Len(s) - 1)) ELSE 0
           k == Leading(read)
           j == IF k = Len(read) THEN 0 ELSE Trailing(read)
           body == SubSeq(read, k + 1, Len(read) - j)
       IN  (/\ k \in 1..3 /\ j < k
            /\ \A i \in 1..Len(body) : body[i] \in {ChA, ChOne, ChSpace}
            /\ cx.state \in {"DataAsterisk", "DataAsteriskData", "DataDoubleAsterisk",
                              "DataDoubleAsteriskData", "DataTripleAsterisk",
                              "DataTripleAsteriskData"}
            /\ (Feed({ChNL}) \/ ReadEOF)) =>
               /\ ~Failed(cx')
               /\ \A n \in Owned(cx'.nodes, {cx'.root}, {}) : cx'.nodes[n].element # "Span"
               /\ cx'.logged # {}
               /\ Text(cx'.nodes, cx'.root) = read]_vars

\* C25: when the newline injected at the end of the file arrives in one of the
\* seven link and image states, on the first line of the input, no image or
\* hyperlink node is made and the text of the tree is exactly the input read
\* since the opening '!' or '[', the alt, url and title parts each once.
C25_LinkRollback ==
    [][(/\ cx.state \in {"Image", "AltOpenSquared", "AltClosedSquared", "UrlOpenRound",
                         "TitleOpenRound", "TitleConsuming", "TitleClosedRound"}
        /\ Newlines(read) = 0
        /\ ReadEOF) =>
           /\ ~Failed(cx')
           /\ \A n \in Owned(cx'.nodes, {cx'.root}, {}) :
                  cx'.nodes[n].kind \notin {"ImageNode", "HyperlinkNode"}
           /\ Text(cx'.nodes, cx'.root) = read]_vars

\* C26: when '|' arrives while an emphasis, inline-code or hyperlink construct
\* entered from TableHeaderNames or TableCellData is unclosed, the head or cell
\* under the cursor of the table manager receives as text exactly the
\* characters of the construct read so far, without the '|'; that head or cell
\* is closed and a new empty one of the same kind is opened after it; the state
\* is the table state the construct was entered from and the return stack has
\* been popped once.
C26_PipeInConstruct ==
    [][LET RECURSIVE SinceLastPipe(_)
           SinceLastPipe(s) ==
               IF s = <<>> \/ s[Len(s)] = ChPipe THEN <<>>
               ELSE Append(SinceLastPipe(SubSeq(s, 1, Len(s) - 1)), s[Len(s)])
           cell == cx.tm_current
           row == cx.nodes[cell].parent
       IN  (/\ cx.state \notin {"TableHeaderNames", "TableCellData"}
            /\ InTable(cx)
            /\ Feed({ChPipe})) =>
               /\ ~Failed(cx')
               /\ cx'.state = top(cx)
               /\ cx'.return_stack = SubSeq(cx.return_stack, 1, Len(cx.return_stack) - 1)
               /\ cx.nodes[cell].element =
                      (IF top(cx) = "TableCellData" THEN "Table_Cell" ELSE "Table_Head")
               /\ Text(cx'.nodes, cell) = SinceLastPipe(read)
               /\ cx'.tm_current = Len(cx'.nodes)
               /\ cx'.nodes[cx'.tm_current].element = cx.nodes[cell].element
               /\ cx'.nodes[cx'.tm_current].children = <<>>
               /\ cx'.nodes[row].children = Append(cx.nodes[row].children, cx'.tm_current)]_vars

\* C27: while a Paragraph is open and the tokenizer is in the state Data, the
\* second of two consecutive newlines closes the Paragraph, the cursor going to
\* the parent of the Paragraph, and a character other than a newline that
\* follows a single newline leaves the cursor in the Paragraph; also when the
\* Paragraph holds a single line so far.
C27_ParagraphBreaks ==
    [][LET paragraph == cx.current
           RECURSIVE Within(_)
           Within(n) == n # 0 /\ (n = paragraph \/ Within(cx'.nodes[n].parent))
       IN  (/\ cx.state = "Data" /\ ~cx.is_escaped
            /\ paragraph # 0 /\ cx.nodes[paragraph].element = "Paragraph"
            /\ read # <<>> /\ read[Len(read)] = ChNL
            /\ (Len(read) = 1 \/ read[Len(read) - 1] # ChNL)) =>
               /\ Feed({ChNL}) =>
                      cx'.current = cx.nodes[paragraph].parent
               /\ Feed(Alphabet \ {ChNL, ChBackslash}) =>
                      Within(cx'.current)]_vars

C29_BlockquoteInList ==
    [][LET OnQuote(c) ==
               /\ c.current # 0
               /\ c.nodes[c.current].element = "Span"
               /\ c.nodes[c.current].attributes = <<"BlockQuote">>
               /\ c.nodes[c.current].parent # 0
               /\ c.nodes[c.nodes[c.current].parent].element = "List_Element"
       IN  /\ (Feed({ChSpace}) /\ cx.state = "UnorderedList" /\ cx.blockquote_in_list) =>
                  (OnQuote(cx') /\ cx'.blockquote_in_list /\ cx'.state = "Data")
           /\ (Feed({ChNL}) /\ cx.blockquote_in_list) =>
                  /\ cx.state = "Data" /\ OnQuote(cx)
                  /\ ~cx'.blockquote_in_list
                  /\ cx'.current = cx.nodes[cx.nodes[cx.current].parent].parent
           /\ cx'.blockquote_in_list =>
                  \/ cx'.state = "UnorderedList" /\ read'[Len(read')] = ChGt
                  \/ cx'.state = "Data" /\ OnQuote(cx')]_vars

\* C30: when a character that is neither escapable nor a newline is read
\* after a backslash, the step appends the backslash and the character to
\* consumed, clears is_escaped and changes nothing else in the context.
C30_NonEscapable ==
    [][LET next == read'[Len(read')]
       IN  (/\ Feed(Alphabet) /\ cx.is_escaped
            /\ ~is_escaped_char(next) /\ next # ChNL) =>
               cx' = [cx EXCEPT !.consumed = @ \o <<ChBackslash, next>>,
                                !.is_escaped = FALSE]]_vars

\* C31: after the driver has processed a character other than a newline,
\* a backslash that starts an escape and the character it escapes included,
\* newline_counter is 0.
C31_NewlineCounterReset ==
    [][(Feed(Alphabet \ {ChNL}) /\ ~Failed(cx')) => cx'.newline_counter = 0]_vars

\* C32: a heading is opened and closed within its line, so after any number
\* of heading lines the return-state stack is as deep as before the first
\* one: empty.
C32_StackBounded ==
    \A k \in 0..MaxQuoteLines :
        (pc = "parsing" /\ read = Flatten([i \in 1..k |-> <<ChHash, ChSpace, ChA, ChNL>>])) =>
            cx.return_stack = <<>>

\* C33: no input makes the tokenizer raise: the context never holds an
\* exception and parse_document neither aborts nor crashes.
C33_NoAbort == ~Failed(cx) /\ pc \notin {"aborted", "crashed"}

\* C34: after each character the emitter is in table mode exactly when the
\* tokenizer is in a table context: a table state, or an inline-construct
\* state whose return state is TableHeaderNames or TableCellData.
C34_TableModeAgrees ==
    LET table_states == {"TableHeaderNames", "TableHeaderSeparationPipeAwaiting",
                         "TableHeaderSeparation", "TableCellPipeAwaiting",
                         "TableCellData"}
        resumable == {"Data", "UnorderedListPrep", "OrderedListPrep"}
        table_context ==
            \/ cx.state \in table_states
            \/ /\ cx.state \notin resumable
               /\ cx.return_stack # <<>>
               /\ top(cx) \in {"TableHeaderNames", "TableCellData"}
    IN  (pc = "parsing" /\ ~Failed(cx)) => (cx.table_parsing_flag <=> table_context)

\* C35: in table mode the cursor of the table manager is a node of the
\* table, rows are children of the Table and heads and cells are children of
\* a row; and a step that adds a Hypertext, Span or Codeblock under the head
\* or cell of the cursor and returns to the table state leaves the cursor on
\* that head or cell.
C35_TableCursor ==
    [][LET table == Owned(cx'.nodes, {cx'.table_root}, {})
           Element(c, id) == c.nodes[id].element
           cells == {"Table_Head", "Table_Cell"}
       IN  (cx'.table_parsing_flag /\ ~Failed(cx')) =>
               /\ cx'.tm_current \in table
               /\ \A id \in table :
                      /\ Element(cx', id) = "Table_Row" =>
                             cx'.nodes[id].parent = cx'.table_root
                      /\ Element(cx', id) \in cells =>
                             /\ cx'.nodes[id].parent \in table
                             /\ Element(cx', cx'.nodes[id].parent) = "Table_Row"
               /\ (/\ cx.table_parsing_flag /\ cx.tm_current # 0
                   /\ Element(cx, cx.tm_current) \in cells
                   /\ cx'.state \in {"TableHeaderNames", "TableCellData"}
                   /\ \E id \in Len(cx.nodes) + 1..Len(cx'.nodes) :
                          /\ Element(cx', id) \in {"Hypertext", "Span", "Codeblock"}
                          /\ cx'.nodes[id].parent = cx.tm_current) =>
                      cx'.tm_current = cx.tm_current]_vars

\* C36: in UnorderedListPrep and OrderedListPrep the lists open from the
\* cursor upwards number indent_level \div INDENTATION + 1, and a step that
\* ends the list (to a state other than the list states) puts the cursor on
\* the parent of the outermost of them.
C36_ListTermination ==
    [][LET lists == {"List_Unordered", "List_Ordered"}
           IsList(id) == id # 0 /\ cx.nodes[id].element \in lists
           RECURSIVE Open(_)
           Open(id) == IF IsList(id) THEN 1 + Open(cx.nodes[id].parent) ELSE 0
           RECURSIVE Outside(_)
           Outside(id) == IF IsList(id) THEN Outside(cx.nodes[id].parent) ELSE id
       IN  (/\ pc = "parsing" /\ ~Failed(cx) /\ ~cx.is_escaped
            /\ cx.state \in {"UnorderedListPrep", "OrderedListPrep"}) =>
               /\ Open(cx.current) = cx.indent_level \div INDENTATION + 1
               /\ (/\ Feed(Alphabet \cup {ChTab, ChDot})
                   /\ cx'.state \notin {"UnorderedListPrep", "OrderedListPrep",
                                         "UnorderedList", "DataConsumingNumber",
                                         "DataOrdinalNumber"}) =>
                      (~Failed(cx') /\ cx'.current = Outside(cx.current))]_vars

\* C37: top_n_pop is never called on an empty return-state stack: the
\* warning of its fallback to Data is never logged.
C37_PushPopBalance == "Popping an empty stack" \notin cx.logged

\* C38: when parse_document has returned, the pending content buffer and
\* the alt and src scratch buffers are empty.
C38_NothingPending ==
    Returned => (cx.consumed = <<>> /\ cx.alt = <<>> /\ cx.src = <<>>)

\* C39: whenever the tokenizer is in the state Data after a character has
\* been processed, counter is 0.
C39_CounterHygiene ==
    (pc = "parsing" /\ ~Failed(cx) /\ cx.state = "Data") => cx.counter = 0

\* C40: whenever the tokenizer is in a resumable state after a character
\* has been processed, the alt and src scratch buffers are empty.
C40_ScratchHygiene ==
    (/\ pc = "parsing" /\ ~Failed(cx)
     /\ cx.state \in {"Data", "UnorderedListPrep", "OrderedListPrep",
                      "TableHeaderNames", "TableCellData"}) =>
        (cx.alt = <<>> /\ cx.src = <<>>)

====
